---- MODULE Spec2Model ----
(***************************************************************************)
(* Model of the mockoho mediation engine: the Route Table kept by          *)
(* config.Config, the matcher and dispatcher of mock.Manager and           *)
(* server.Server, and the upstream target kept by proxy.Manager.           *)
(*                                                                         *)
(* Go strings that the code splits or inspects (paths, patterns, target    *)
(* URLs) are sequences of one-character strings; opaque names (endpoint    *)
(* ids, feature names, methods, response names) are TLA+ strings.          *)
(* A Go slice is a header (arr, len) over a backing array kept in heap;    *)
(* a *config.Endpoint is a pair (arr, idx) into that heap.                 *)
(***************************************************************************)
EXTENDS Integers, Sequences, FiniteSets, TLC

\* Longest path / pattern string drawn for the matcher specification.
MaxPathLen == 3

\* Number of concurrent ToggleEndpoint callers in SpecToggle.
NumTogglers == 2

\* Number of mutation API calls a caller makes in Spec and SpecCalls.
MaxCalls == 1

\* Longest body string drawn for the renderer specification, in tokens.
MaxBodyLen == 4

\* Number of times GenerateResponse is called on one endpoint in SpecRender.
MaxRenders == 2

\* Most transport wrappers that requests ending in a panic leave installed.
MaxWrap == 2

\* Longest string body sent, in tokens.
MaxStrLen == 3

\* Handle calls in progress at the same time.
NumHandlers == 2

\* Most calls made on the Server object.
MaxLifeCalls == 4

----------------------------------------------------------------------------
(* Strings *)

Alphabet == {"/", ":", "a"}

RECURSIVE StrsOfLen(_)
StrsOfLen(n) ==
  IF n = 0 THEN {<<>>}
  ELSE {Append(s, c) : s \in StrsOfLen(n - 1), c \in Alphabet}

Strs == UNION {StrsOfLen(n) : n \in 0..MaxPathLen}

\* strings.Split(s, "/"): the segments between the separators; a string
\* without separator is one segment, the empty string is one empty segment.
RECURSIVE SplitFrom(_, _, _)
SplitFrom(s, i, cur) ==
  IF i > Len(s) THEN <<cur>>
  ELSE IF s[i] = "/" THEN <<cur>> \o SplitFrom(s, i + 1, <<>>)
  ELSE SplitFrom(s, i + 1, Append(cur, s[i]))

Split(s) == SplitFrom(s, 1, <<>>)

\* strings.HasPrefix(part, ":")
HasPrefix(part) == Len(part) >= 1 /\ part[1] = ":"

----------------------------------------------------------------------------
(* Matcher *)

\* The loop of pathMatches over i := range patternParts; an index past the
\* end of pathParts is Go's index-out-of-range panic.
RECURSIVE MatchLoop(_, _, _)
MatchLoop(patternParts, pathParts, i) ==
  IF i > Len(patternParts) THEN "true"
  ELSE IF HasPrefix(patternParts[i]) THEN MatchLoop(patternParts, pathParts, i + 1)
  ELSE IF i > Len(pathParts) THEN "panic"
  ELSE IF patternParts[i] # pathParts[i] THEN "false"
  ELSE MatchLoop(patternParts, pathParts, i + 1)

\* A pathMatches without the segment-count test.
pathMatchesNoLen(pattern, path) ==
  MatchLoop(Split(pattern), Split(path), 1)

pathMatches(pattern, path) ==
  IF Len(Split(pattern)) # Len(Split(path)) THEN "false"
  ELSE MatchLoop(Split(pattern), Split(path), 1)

----------------------------------------------------------------------------
(* Data model: config.Response, config.Endpoint, config.FeatureConfig *)

\* config.Response. Headers maps the header names as the file spells them
\* to values; Body maps the member names of a JSON object to strings, each a
\* sequence of tokens (see the Renderer); Delay is in milliseconds.
Response(status, headers, body, delay) ==
  [Status |-> status, Headers |-> headers, Body |-> body, Delay |-> delay]

JSONHeaders == [h \in {"Content-Type"} |-> "application/json"]

NoResponses == [n \in {} |-> Response(0, <<>>, <<>>, 0)]

Endpoint(id, method, path, active, def, responses) ==
  [ID |-> id, Method |-> method, Path |-> path, Active |-> active,
   DefaultResponse |-> def, Responses |-> responses]

\* Go's zero value of config.Endpoint (an unused slot of a backing array).
ZeroEndpoint == Endpoint("", "", <<>>, FALSE, "", NoResponses)

NilPtr == [arr |-> 0, idx |-> 0]

VARIABLES
  heap,     \* backing arrays of the Endpoints slices: heap[a][i]
  Mocks,    \* c.Mocks: feature name -> slice header [arr, len]
  Global,   \* c.Global: ProxyConfig and ServerConfig
  mproxy,   \* m.proxy: the reverse proxy object and the target URL it closes over
  mu,       \* c.mu: the set of processes holding the write lock across steps
  disk,     \* the configuration directory: config.json and <feature>.json
  ui,       \* the goroutines calling the mutation API
  req,      \* the request-handling goroutine under observation
  fe,       \* caller of the pure matcher functions
  call,     \* caller of the pure functions of rendering and forwarding
  up,       \* the upstream server: the outcomes a forwarded request can have
  srv,      \* the Server object: isRunning and the state of s.httpServer
  methods   \* the clients: the methods of the requests they send

vars == <<heap, Mocks, Global, mproxy, mu, disk, ui, req, fe, call, up, srv, methods>>

\* cap(slice): the length of the backing array.
Cap(hdr) == IF hdr.arr = 0 THEN 0 ELSE Len(heap[hdr.arr])

\* The elements of a slice as its header presents them.
Elems(hdr) == IF hdr.arr = 0 THEN <<>> ELSE SubSeq(heap[hdr.arr], 1, hdr.len)

\* createReverseProxy: the proxy object closes over the parsed target URL;
\* NewSingleHostReverseProxy leaves Transport nil. A transport is the chain
\* of headerCopyingTransports around the default transport, given as the
\* recorders they are bound to, innermost first; nil is the empty chain.
createReverseProxy(targetURL) == [targetURL |-> targetURL, Transport |-> <<>>]

\* The Route Table and UpstreamTarget in effect for request handling.
RouteTable == [f \in DOMAIN Mocks |-> Elems(Mocks[f])]

LiveView == [route |-> RouteTable, global |-> Global, upstream |-> mproxy.targetURL]

\* All orders in which Go's range may visit the keys of a map.
Perms(S) ==
  {p \in [1..Cardinality(S) -> S] : \A i, j \in 1..Cardinality(S) : i # j => p[i] # p[j]}

\* The order of os.ReadDir: sorted by file name.
Features == <<"f1", "f2">>

SortedNames(S) ==
  LET idx == {i \in 1..Len(Features) : Features[i] \in S}
      Rank(i) == Cardinality({j \in idx : j <= i})
  IN [k \in 1..Cardinality(idx) |-> Features[CHOOSE i \in idx : Rank(i) = k]]

NoMatch == [found |-> "no", ptr |-> NilPtr, feature |-> ""]

\* The inner loop of FindEndpoint over one feature's Endpoints.
RECURSIVE ScanEndpoints(_, _, _, _, _)
ScanEndpoints(feature, hdr, i, method, path) ==
  IF i > hdr.len THEN NoMatch
  ELSE LET endpoint == heap[hdr.arr][i]
           m == IF endpoint.Method = method THEN pathMatches(endpoint.Path, path) ELSE "false"
       IN IF m = "true" THEN [found |-> "yes", ptr |-> [arr |-> hdr.arr, idx |-> i], feature |-> feature]
          ELSE IF m = "panic" THEN [found |-> "panic", ptr |-> NilPtr, feature |-> ""]
          ELSE ScanEndpoints(feature, hdr, i + 1, method, path)

\* FindEndpoint with the features visited in the given order.
RECURSIVE ScanFeatures(_, _, _, _)
ScanFeatures(order, k, method, path) ==
  IF k > Len(order) THEN NoMatch
  ELSE LET r == ScanEndpoints(order[k], Mocks[order[k]], 1, method, path)
       IN IF r.found # "no" THEN r ELSE ScanFeatures(order, k + 1, method, path)

\* Whether FindEndpoint's test accepts the endpoint for the method and path.
EndpointMatches(endpoint, method, path) ==
  endpoint.Method = method /\ pathMatches(endpoint.Path, path) = "true"

\* A FindEndpoint that passes over an inactive match when an active endpoint
\* of the same feature matches as well.
FindEndpointPreferActive(order, method, path) ==
  LET r == ScanFeatures(order, 1, method, path)
      later == IF r.found # "yes" THEN {}
               ELSE {j \in 1..Mocks[r.feature].len :
                       /\ heap[r.ptr.arr][j].Active
                       /\ EndpointMatches(heap[r.ptr.arr][j], method, path)}
  IN IF r.found = "yes" /\ ~heap[r.ptr.arr][r.ptr.idx].Active /\ later # {}
     THEN [r EXCEPT !.ptr.idx = CHOOSE j \in later : TRUE]
     ELSE r

\* Manager.FindEndpoint: the first endpoint that matches, in the order in
\* which the features are visited.
FindEndpoint(order, method, path) == ScanFeatures(order, 1, method, path)

----------------------------------------------------------------------------
(* Values the specifications draw from *)

Methods == {"GET", "POST"}

ResA ==
  [n \in {"ok", "err"} |->
     IF n = "ok" THEN Response(200, JSONHeaders, [msg |-> <<"A", "o", "k">>], 0)
     ELSE Response(500, JSONHeaders, [msg |-> <<"A", "e", "r", "r">>], 0)]
ResB == [n \in {"ok"} |-> Response(201, JSONHeaders, [msg |-> <<"B", "o", "k">>], 0)]

\* Target URLs: "h://a", "h://b", "://x" and "n u" (letters, a blank).
TargetA == <<"h", ":", "/", "/", "a">>
TargetB == <<"h", ":", "/", "/", "b">>
TargetNoScheme == <<":", "/", "/", "x">>
TargetBlank == <<"n", " ", "u">>

\* The rule lists of the model: "^/a" -> "" (the rule of TestProxyPathRewrite)
\* and "^/" -> "/a".
RuleStrip == <<"^", "/", "a">>
RuleMove == <<"^", "/">>
Rw0 == [p \in {RuleStrip} |-> <<>>]
Rw1 == [p \in {RuleMove} |-> <<"/", "a">>]

\* The rule list an UpdatePathRewrite call passes, by the name of the call's
\* argument.
RulesArg(name) == IF name = "rw1" THEN Rw1 ELSE Rw0

ContentType == "Content-Type"

NoHeader == [k \in {} |-> <<>>]

\* What the upstream does with one forwarded request: it answers ("ok"), the
\* round trip fails ("error"), the round trip ends with http.ErrAbortHandler
\* ("abort"), or the copy of the body fails after the status line has been
\* sent and ReverseProxy panics with http.ErrAbortHandler ("copyfail").
Outcome(kind, status, headers) == [kind |-> kind, status |-> status, headers |-> headers]

HealthyUpstream == {Outcome("ok", 200, [k \in {ContentType} |-> <<"text/plain">>])}

\* config.ServerConfig
ServerConfig(host, port) == [Host |-> host, Port |-> port]

InitGlobal ==
  [Target |-> TargetA, ChangeOrigin |-> FALSE, PathRewrite |-> Rw0,
   ServerConfig |-> ServerConfig("localhost", 3000)]

\* server.New: isRunning is false and no http.Server exists yet.
NewServer == [isRunning |-> FALSE, httpServer |-> "nil"]

IdleUI == [pc |-> "idle", op |-> "", feature |-> "", id |-> "", name |-> "",
           ep |-> ZeroEndpoint, target |-> <<>>, flag |-> FALSE,
           ptr |-> NilPtr, tmp |-> FALSE, copy |-> ZeroEndpoint,
           hdr |-> NilPtr, todo |-> <<>>, res |-> "", calls |-> 0,
           wrote |-> FALSE, saved |-> FALSE, snap |-> <<>>]

IdleReq == [pc |-> "idle", method |-> "", path |-> <<>>, found |-> "no",
            ptr |-> NilPtr, active |-> FALSE, params |-> <<>>, status |-> 0,
            body |-> <<>>, upstream |-> <<>>, handled |-> {}, ids |-> {},
            headers |-> NoHeader, text |-> "", written |-> FALSE, logged |-> {},
            upath |-> <<>>, outcome |-> "", attempts |-> 0, transport0 |-> <<>>]

IdleFe == [pc |-> "off", method |-> "", path |-> <<>>, r1 |-> NoMatch, r2 |-> NoMatch]

IdleCall == [pc |-> "off"]

----------------------------------------------------------------------------
(* SpecMatch: FindEndpoint called twice on a fixed Route Table *)

\* The pattern of the second endpoint: "/:" or "/a".
SecondPatterns == {<<"/", ":">>, <<"/", "a">>}

MatchTables(e1, e2) ==
  { [h |-> <<<<e1>>>>, m |-> [f \in {"f1"} |-> [arr |-> 1, len |-> 1]]],
    [h |-> <<<<e1, e2>>>>, m |-> [f \in {"f1"} |-> [arr |-> 1, len |-> 2]]],
    [h |-> <<<<e2, e1>>>>, m |-> [f \in {"f1"} |-> [arr |-> 1, len |-> 2]]],
    [h |-> <<<<e1>>, <<e2>>>>, m |-> [f \in {"f1", "f2"} |-> [arr |-> IF f = "f1" THEN 1 ELSE 2, len |-> 1]]] }

InitMatch ==
  /\ \E pat1 \in Strs, pat2 \in SecondPatterns :
       \E t \in MatchTables(Endpoint("a", "GET", pat1, TRUE, "ok", ResA),
                            Endpoint("b", "GET", pat2, TRUE, "ok", ResB)) :
         /\ heap = t.h
         /\ Mocks = t.m
  /\ Global = InitGlobal
  /\ mproxy = createReverseProxy(TargetA)
  /\ mu = {}
  /\ disk = [global |-> InitGlobal, feats |-> [f \in {} |-> <<>>]]
  /\ ui = [p \in {} |-> IdleUI]
  /\ req = IdleReq
  /\ \E method \in Methods, path \in Strs :
       fe = [IdleFe EXCEPT !.pc = "start", !.method = method, !.path = path]
  /\ call = IdleCall
  /\ up = HealthyUpstream
  /\ srv = NewServer
  /\ methods = {"GET"}

FeCall1 ==
  /\ fe.pc = "start"
  /\ \E order \in Perms(DOMAIN Mocks) :
       fe' = [fe EXCEPT !.pc = "called", !.r1 = FindEndpoint(order, fe.method, fe.path)]
  /\ UNCHANGED <<heap, Mocks, Global, mproxy, mu, disk, ui, req, call, up, srv, methods>>

FeCall2 ==
  /\ fe.pc = "called"
  /\ \E order \in Perms(DOMAIN Mocks) :
       fe' = [fe EXCEPT !.pc = "done", !.r2 = FindEndpoint(order, fe.method, fe.path)]
  /\ UNCHANGED <<heap, Mocks, Global, mproxy, mu, disk, ui, req, call, up, srv, methods>>

NextMatch == FeCall1 \/ FeCall2

SpecMatch == InitMatch /\ [][NextMatch]_vars

\* The endpoint a pointer designates.
Deref(ptr) == heap[ptr.arr][ptr.idx]

\* The matching rule as the specification words it.
SegmentsAgree(pattern, path) ==
  LET pp == Split(pattern)
      qq == Split(path)
  IN /\ Len(pp) = Len(qq)
     /\ \A i \in 1..Len(pp) : (Len(pp[i]) = 0 \/ pp[i][1] # ":") => pp[i] = qq[i]

TableHasMatch(method, path) ==
  \E f \in DOMAIN Mocks : \E i \in 1..Mocks[f].len :
    /\ heap[Mocks[f].arr][i].Method = method
    /\ SegmentsAgree(heap[Mocks[f].arr][i].Path, path)

\* C9: FindEndpoint returns an endpoint exactly when the Route Table holds an
\* endpoint of the request's method whose pattern has as many segments as the
\* path and agrees with it on every segment not starting with ':'; the
\* endpoint returned is such an endpoint; otherwise the result is the
\* no-match error with a nil endpoint, and the call never panics.
C9_FindEndpointIffMatch ==
  fe.pc \in {"called", "done"} =>
    /\ fe.r1.found \in {"yes", "no"}
    /\ (fe.r1.found = "yes") <=> TableHasMatch(fe.method, fe.path)
    /\ fe.r1.found = "yes" =>
         /\ Deref(fe.r1.ptr).Method = fe.method
         /\ SegmentsAgree(Deref(fe.r1.ptr).Path, fe.path)
         /\ fe.r1.feature \in DOMAIN Mocks
         /\ Mocks[fe.r1.feature].arr = fe.r1.ptr.arr
    /\ fe.r1.found = "no" => fe.r1.ptr = NilPtr /\ fe.r1.feature = ""

\* C9 witness: a pattern of three segments with a parameter segment matched a
\* path, and (in another run) a path with more segments than every pattern of
\* its method was rejected; the state reached here is the first.
C9_Witness ==
  /\ fe.pc = "called"
  /\ fe.r1.found = "yes"
  /\ Len(Split(fe.path)) = 3
  /\ \E i \in 1..3 : HasPrefix(Split(Deref(fe.r1.ptr).Path)[i])
  /\ \E f \in DOMAIN Mocks : \E i \in 1..Mocks[f].len :
       /\ heap[Mocks[f].arr][i].Method = fe.method
       /\ Len(Split(heap[Mocks[f].arr][i].Path)) # 3

\* FindEndpoint over the features in the order Load inserted them.
FirstDeclared(method, path) ==
  ScanFeatures(SortedNames(DOMAIN Mocks), 1, method, path)

\* C10: on a fixed Route Table two calls of FindEndpoint with the same method
\* and path return the same endpoint and feature, and it is the first match in
\* insertion order over the features and their endpoints.
C10_FirstDeclaredWins ==
  fe.pc = "done" =>
    /\ fe.r1 = fe.r2
    /\ fe.r1 = FirstDeclared(fe.method, fe.path)

----------------------------------------------------------------------------
(* Spec: one UI goroutine calling the mutation API, one request in flight,
   and the user's editor changing the configuration files *)

EpA == Endpoint("a", "GET", <<"/", "a">>, TRUE, "ok", ResA)
EpB == Endpoint("b", "GET", <<"/", ":", "a">>, FALSE, "ok", ResB)

\* Arguments the UI passes to the mutation API.
FeatArgs == {"f1", "f2"}
IdArgs == {"a", "b", "c"}
NameArgs == {"err", "nope"}
NewEndpoints ==
  {Endpoint("a", "GET", <<"/", "a", "a">>, TRUE, "ok", ResB),
   Endpoint("c", "GET", <<"/", "a", "a">>, TRUE, "ok", ResB),
   Endpoint("c", "GET", <<"/", "a", "a">>, FALSE, "ok", ResB),
   Endpoint("c", "GET", <<"/", "a", "a">>, TRUE, "nope", ResB)}
TargetArgs == {TargetA, TargetB, TargetNoScheme, TargetBlank}
ReqPaths == {<<"/", "a">>, <<"/", "a", "a">>, <<"/", "a", "/">>}

File(ok, val) == [ok |-> ok, val |-> val]

\* url.Parse, as far as it can fail on the strings above: getScheme rejects a
\* leading ':', and a first path segment holding ':' is rejected when the
\* string has no scheme.
Letters == {"h", "n", "u", "a", "b", "x"}

RECURSIVE SchemeEnd(_, _)
SchemeEnd(s, i) ==
  IF i > Len(s) THEN 0
  ELSE IF s[i] \in Letters THEN SchemeEnd(s, i + 1)
  ELSE IF s[i] = ":" THEN (IF i = 1 THEN -1 ELSE i)
  ELSE 0

UrlParseOK(s) ==
  LET e == SchemeEnd(s, 1)
      first == Split(s)[1]
  IN IF e = -1 THEN FALSE
     ELSE IF e = 0 /\ (Len(s) = 0 \/ s[1] # "/")
       THEN \A i \in 1..Len(first) : first[i] # ":"
     ELSE TRUE

InitSpec ==
  /\ heap = <<<<EpA, EpB>>>>
  /\ Mocks = [f \in {"f1"} |-> [arr |-> 1, len |-> 2]]
  /\ Global = InitGlobal
  /\ mproxy = createReverseProxy(TargetA)
  /\ mu = {}
  /\ disk = [global |-> File(TRUE, InitGlobal),
             feats |-> [f \in {"f1"} |-> File(TRUE, <<EpA, EpB>>)]]
  /\ ui = [p \in {1} |-> IdleUI]
  /\ req = IdleReq
  /\ fe = IdleFe
  /\ call = IdleCall
  /\ up = HealthyUpstream
  /\ srv = NewServer
  /\ methods = {"GET"}

\* Ghost bookkeeping of a call: wrote records that the call changed the Route
\* Table or UpstreamTarget in effect.
Mark(rec) == [rec EXCEPT !.wrote = @ \/ LiveView' # LiveView]

Finish(rec, result) == [rec EXCEPT !.pc = "done", !.res = result]

FirstPc(op) ==
  CASE op \in {"Toggle", "SetDefault"} -> "get"
    [] op = "Create" -> "add"
    [] op = "DeleteEndpoint" -> "del"
    [] op = "DeleteFeature" -> "delf"
    [] op = "CreateFeature" -> "addf"
    [] op = "Reload" -> "load"
    [] op = "UpdateTarget" -> "ut_set"
    [] op = "UpdatePathRewrite" -> "pr_set"
    [] op = "SetChangeOrigin" -> "co_set"

CallArgs ==
  {[op |-> "Toggle", feature |-> f, id |-> i, name |-> "", ep |-> ZeroEndpoint, target |-> <<>>, flag |-> FALSE]
     : f \in FeatArgs, i \in IdArgs}
  \cup
  {[op |-> "SetDefault", feature |-> f, id |-> i, name |-> n, ep |-> ZeroEndpoint, target |-> <<>>, flag |-> FALSE]
     : f \in FeatArgs, i \in IdArgs, n \in NameArgs}
  \cup
  {[op |-> "Create", feature |-> f, id |-> "", name |-> "", ep |-> e, target |-> <<>>, flag |-> FALSE]
     : f \in FeatArgs, e \in NewEndpoints}
  \cup
  {[op |-> o, feature |-> f, id |-> i, name |-> "", ep |-> ZeroEndpoint, target |-> <<>>, flag |-> FALSE]
     : o \in {"DeleteEndpoint"}, f \in FeatArgs, i \in IdArgs}
  \cup
  {[op |-> o, feature |-> f, id |-> "", name |-> "", ep |-> ZeroEndpoint, target |-> <<>>, flag |-> FALSE]
     : o \in {"DeleteFeature", "CreateFeature"}, f \in FeatArgs}
  \cup
  {[op |-> "Reload", feature |-> "", id |-> "", name |-> "", ep |-> ZeroEndpoint, target |-> <<>>, flag |-> FALSE]}
  \cup
  {[op |-> "UpdateTarget", feature |-> "", id |-> "", name |-> "", ep |-> ZeroEndpoint, target |-> t, flag |-> FALSE]
     : t \in TargetArgs}
  \cup
  {[op |-> "UpdatePathRewrite", feature |-> "", id |-> "", name |-> "rw1", ep |-> ZeroEndpoint, target |-> <<>>, flag |-> FALSE]}
  \cup
  {[op |-> "SetChangeOrigin", feature |-> "", id |-> "", name |-> "", ep |-> ZeroEndpoint, target |-> <<>>, flag |-> b]
     : b \in BOOLEAN}

\* The UI starts a call of the mutation API. The state "before the call" is
\* recorded at a moment when no other call is inside a locked section.
UICall(p) ==
  /\ ui[p].pc \in {"idle", "done"}
  /\ ui[p].calls < MaxCalls
  /\ mu = {}
  /\ \E c \in CallArgs :
       ui' = [ui EXCEPT ![p] =
                [IdleUI EXCEPT !.pc = FirstPc(c.op), !.op = c.op, !.feature = c.feature,
                               !.id = c.id, !.name = c.name, !.ep = c.ep,
                               !.target = c.target, !.flag = c.flag,
                               !.calls = ui[p].calls + 1, !.snap = LiveView]]
  /\ UNCHANGED <<heap, Mocks, Global, mproxy, mu, disk, req, fe, call, up, srv, methods>>

\* Indices of the endpoints with the given ID among the elements of a slice.
IndexOf(hdr, id) == {i \in 1..hdr.len : heap[hdr.arr][i].ID = id}

Min(S) == CHOOSE x \in S : \A y \in S : x <= y

\* Config.GetEndpoint, under the read lock.
GetEndpoint(p) ==
  /\ ui[p].pc = "get"
  /\ mu = {}
  /\ LET f == ui[p].feature
         ok == f \in DOMAIN Mocks /\ IndexOf(Mocks[f], ui[p].id) # {}
     IN ui' = [ui EXCEPT ![p] =
                 IF ok
                 THEN [@ EXCEPT !.ptr = [arr |-> Mocks[f].arr, idx |-> Min(IndexOf(Mocks[f], ui[p].id))],
                                !.pc = IF ui[p].op = "Toggle" THEN "tgl_read" ELSE "sd_set"]
                 ELSE Finish(@, "err_cfg")]
  /\ UNCHANGED <<heap, Mocks, Global, mproxy, mu, disk, req, fe, call, up, srv, methods>>

\* ToggleEndpoint: the read of endpoint.Active in endpoint.Active = !endpoint.Active.
ToggleRead(p) ==
  /\ ui[p].pc = "tgl_read"
  /\ ui' = [ui EXCEPT ![p].tmp = Deref(ui[p].ptr).Active, ![p].pc = "tgl_write"]
  /\ UNCHANGED <<heap, Mocks, Global, mproxy, mu, disk, req, fe, call, up, srv, methods>>

Toggled(b) == ~b

\* ToggleEndpoint: the store through the pointer, outside any lock.
ToggleWrite(p) ==
  /\ ui[p].pc = "tgl_write"
  /\ heap' = [heap EXCEPT ![ui[p].ptr.arr][ui[p].ptr.idx].Active = Toggled(ui[p].tmp)]
  /\ UNCHANGED <<Mocks, Global, mproxy, mu, disk, req, fe, call, up, srv, methods>>
  /\ ui' = [ui EXCEPT ![p] = Mark([@ EXCEPT !.pc = "copy"])]

\* A SetDefaultResponse that stores the name before it validates it.
SetDefaultSetEarly(p) ==
  /\ ui[p].pc = "sd_set"
  /\ heap' = [heap EXCEPT ![ui[p].ptr.arr][ui[p].ptr.idx].DefaultResponse = ui[p].name]
  /\ UNCHANGED <<Mocks, Global, mproxy, mu, disk, req, fe, call, up, srv, methods>>
  /\ ui' = [ui EXCEPT ![p] =
              IF ui[p].name \in DOMAIN Deref(ui[p].ptr).Responses
              THEN Mark([@ EXCEPT !.pc = "copy"])
              ELSE Mark(Finish(@, "err_cfg"))]

\* SetDefaultResponse: the lookup in endpoint.Responses and the store of
\* endpoint.DefaultResponse through the pointer.
SetDefaultSet(p) ==
  /\ ui[p].pc = "sd_set"
  /\ IF ui[p].name \in DOMAIN Deref(ui[p].ptr).Responses
     THEN /\ heap' = [heap EXCEPT ![ui[p].ptr.arr][ui[p].ptr.idx].DefaultResponse = ui[p].name]
          /\ UNCHANGED <<Mocks, Global, mproxy, mu, disk, req, fe, call, up, srv, methods>>
          /\ ui' = [ui EXCEPT ![p] = Mark([@ EXCEPT !.pc = "copy"])]
     ELSE /\ ui' = [ui EXCEPT ![p] = Finish(@, "err_cfg")]
          /\ UNCHANGED <<heap, Mocks, Global, mproxy, mu, disk, req, fe, call, up, srv, methods>>

\* The argument *endpoint of UpdateEndpoint, copied before the lock is taken.
CopyArg(p) ==
  /\ ui[p].pc = "copy"
  /\ ui' = [ui EXCEPT ![p].copy = Deref(ui[p].ptr), ![p].pc = "upd"]
  /\ UNCHANGED <<heap, Mocks, Global, mproxy, mu, disk, req, fe, call, up, srv, methods>>

\* An UpdateEndpoint that stores at the head of the list.
UpdateIndexFirst(hdr, id) == 1

\* Config.UpdateEndpoint: the index of the first endpoint with the ID.
UpdateIndex(hdr, id) == Min(IndexOf(hdr, id))

\* Config.UpdateEndpoint, under the write lock.
UpdateEndpoint(p) ==
  /\ ui[p].pc = "upd"
  /\ mu = {}
  /\ LET f == ui[p].feature
         ok == f \in DOMAIN Mocks /\ IndexOf(Mocks[f], ui[p].copy.ID) # {}
     IN IF ok
        THEN /\ heap' = [heap EXCEPT ![Mocks[f].arr][UpdateIndex(Mocks[f], ui[p].copy.ID)] = ui[p].copy]
             /\ UNCHANGED <<Mocks, Global, mproxy, mu, disk, req, fe, call, up, srv, methods>>
             /\ ui' = [ui EXCEPT ![p] = Mark([@ EXCEPT !.pc = "save_snap"])]
        ELSE /\ ui' = [ui EXCEPT ![p] = Finish(@, "err_cfg")]
             /\ UNCHANGED <<heap, Mocks, Global, mproxy, mu, disk, req, fe, call, up, srv, methods>>

\* Config.SaveFeatureConfig: the slice header read under the read lock.
SaveSnap(p) ==
  /\ ui[p].pc = "save_snap"
  /\ mu = {}
  /\ ui' = [ui EXCEPT ![p] =
              IF ui[p].feature \in DOMAIN Mocks
              THEN [@ EXCEPT !.hdr = Mocks[ui[p].feature], !.pc = "save_write"]
              ELSE Finish(@, "err_cfg")]
  /\ UNCHANGED <<heap, Mocks, Global, mproxy, mu, disk, req, fe, call, up, srv, methods>>

\* Config.SaveFeatureConfig: marshal, write the temporary file and rename it,
\* under the write lock; a failed write leaves the feature file as it was.
SaveWrite(p) ==
  /\ ui[p].pc = "save_write"
  /\ mu = {}
  /\ \/ /\ disk' = [disk EXCEPT !.feats =
                      [f \in DOMAIN disk.feats \cup {ui[p].feature} |->
                         IF f = ui[p].feature THEN File(TRUE, Elems(ui[p].hdr)) ELSE disk.feats[f]]]
        /\ ui' = [ui EXCEPT ![p] = Finish([@ EXCEPT !.saved = TRUE], "ok")]
     \/ /\ UNCHANGED disk
        /\ ui' = [ui EXCEPT ![p] = Finish(@, "err_io")]
  /\ UNCHANGED <<heap, Mocks, Global, mproxy, mu, req, fe, call, up, srv, methods>>

\* A fresh backing array of capacity c holding the elements es.
NewArray(es, c) == [k \in 1..c |-> IF k <= Len(es) THEN es[k] ELSE ZeroEndpoint]

\* The capacity Go's append gives a slice that has outgrown its array.
GrowCap(c) == IF c = 0 THEN 1 ELSE c + c

\* Config.AddEndpoint, under the write lock: the append writes into the
\* backing array when it has room and moves the slice to a new array otherwise.
AddEndpoint(p) ==
  /\ ui[p].pc = "add"
  /\ mu = {}
  /\ LET f == ui[p].feature
         ok == f \in DOMAIN Mocks /\ IndexOf(Mocks[f], ui[p].ep.ID) = {}
     IN IF ok
        THEN /\ IF Mocks[f].len < Cap(Mocks[f])
                THEN /\ heap' = [heap EXCEPT ![Mocks[f].arr][Mocks[f].len + 1] = ui[p].ep]
                     /\ Mocks' = [Mocks EXCEPT ![f].len = @ + 1]
                ELSE /\ heap' = Append(heap, NewArray(Append(Elems(Mocks[f]), ui[p].ep),
                                                      GrowCap(Cap(Mocks[f]))))
                     /\ Mocks' = [Mocks EXCEPT ![f] = [arr |-> Len(heap) + 1, len |-> Mocks[f].len + 1]]
             /\ UNCHANGED <<Global, mproxy, mu, disk, req, fe, call, up, srv, methods>>
             /\ ui' = [ui EXCEPT ![p] = Mark([@ EXCEPT !.pc = "save_snap"])]
        ELSE /\ ui' = [ui EXCEPT ![p] = Finish(@, "err_cfg")]
             /\ UNCHANGED <<heap, Mocks, Global, mproxy, mu, disk, req, fe, call, up, srv, methods>>

\* A removal that keeps every element in its slot, so that the shorter slice
\* loses its last element.
RemoveLast(a, i, n) == a

\* append(Endpoints[:i], Endpoints[i+1:]...) on the backing array a of a slice
\* of length n: the elements after i move down one slot; slot n keeps its
\* old value.
RemoveAt(a, i, n) == [k \in 1..Len(a) |-> IF k >= i /\ k < n THEN a[k + 1] ELSE a[k]]

\* Config.DeleteEndpoint, first half: the write lock is taken and
\* append(Endpoints[:i], Endpoints[i+1:]...) moves the tail down inside the
\* shared backing array.
DeleteShift(p) ==
  /\ ui[p].pc = "del"
  /\ mu = {}
  /\ LET f == ui[p].feature
         ok == f \in DOMAIN Mocks /\ IndexOf(Mocks[f], ui[p].id) # {}
     IN IF ok
        THEN LET h == Mocks[f]
                 i == Min(IndexOf(h, ui[p].id))
             IN /\ heap' = [heap EXCEPT ![h.arr] = RemoveAt(@, i, h.len)]
                /\ mu' = {p}
                /\ UNCHANGED <<Mocks, Global, mproxy, disk, req, fe, call, up, srv, methods>>
                /\ ui' = [ui EXCEPT ![p] = Mark([@ EXCEPT !.pc = "del_store"])]
        ELSE /\ ui' = [ui EXCEPT ![p] = Finish(@, "err_cfg")]
             /\ UNCHANGED <<heap, Mocks, Global, mproxy, mu, disk, req, fe, call, up, srv, methods>>

\* Config.DeleteEndpoint, second half: c.Mocks[feature] = featureConfig
\* publishes the shorter slice, and the lock is released.
DeleteStore(p) ==
  /\ ui[p].pc = "del_store"
  /\ mu = {p}
  /\ Mocks' = [Mocks EXCEPT ![ui[p].feature].len = @ - 1]
  /\ mu' = {}
  /\ UNCHANGED <<heap, Global, mproxy, disk, req, fe, call, up, srv, methods>>
  /\ ui' = [ui EXCEPT ![p] = Mark([@ EXCEPT !.pc = "save_snap"])]

\* Config.DeleteFeature, under the write lock: the map entry is deleted, then
\* the file is removed; a failing os.Remove returns the error.
DeleteFeature(p) ==
  /\ ui[p].pc = "delf"
  /\ mu = {}
  /\ LET f == ui[p].feature
     IN IF f \in DOMAIN Mocks
        THEN /\ Mocks' = [g \in DOMAIN Mocks \ {f} |-> Mocks[g]]
             /\ UNCHANGED <<heap, Global, mproxy, mu, req, fe, call, up, srv, methods>>
             /\ \/ /\ disk' = [disk EXCEPT !.feats = [g \in DOMAIN disk.feats \ {f} |-> disk.feats[g]]]
                   /\ ui' = [ui EXCEPT ![p] = Mark(Finish([@ EXCEPT !.saved = TRUE], "ok"))]
                \/ /\ f \in DOMAIN disk.feats
                   /\ UNCHANGED disk
                   /\ ui' = [ui EXCEPT ![p] = Mark(Finish(@, "err_io"))]
        ELSE /\ ui' = [ui EXCEPT ![p] = Finish(@, "err_cfg")]
             /\ UNCHANGED <<heap, Mocks, Global, mproxy, mu, disk, req, fe, call, up, srv, methods>>

\* Config.AddFeature, under the write lock, with the empty endpoint list the
\* UI passes.
AddFeature(p) ==
  /\ ui[p].pc = "addf"
  /\ mu = {}
  /\ LET f == ui[p].feature
     IN IF f \notin DOMAIN Mocks
        THEN /\ Mocks' = [g \in DOMAIN Mocks \cup {f} |-> IF g = f THEN [arr |-> 0, len |-> 0] ELSE Mocks[g]]
             /\ UNCHANGED <<heap, Global, mproxy, mu, disk, req, fe, call, up, srv, methods>>
             /\ ui' = [ui EXCEPT ![p] = Mark([@ EXCEPT !.pc = "save_snap"])]
        ELSE /\ ui' = [ui EXCEPT ![p] = Finish(@, "err_cfg")]
             /\ UNCHANGED <<heap, Mocks, Global, mproxy, mu, disk, req, fe, call, up, srv, methods>>

\* Config.Load (called by Server.Reload): the write lock is taken, config.json
\* is decoded into c.Global and c.Mocks is replaced by an empty map.
LoadBegin(p) ==
  /\ ui[p].pc = "load"
  /\ mu = {}
  /\ IF disk.global.ok
     THEN /\ Global' = disk.global.val
          /\ Mocks' = [f \in {} |-> NilPtr]
          /\ mu' = {p}
          /\ UNCHANGED <<heap, mproxy, disk, req, fe, call, up, srv, methods>>
          /\ ui' = [ui EXCEPT ![p] = Mark([@ EXCEPT !.pc = "load_feat",
                                                    !.todo = SortedNames(DOMAIN disk.feats)])]
     ELSE /\ ui' = [ui EXCEPT ![p] = Finish(@, "err_load")]
          /\ UNCHANGED <<heap, Mocks, Global, mproxy, mu, disk, req, fe, call, up, srv, methods>>

\* The capacities encoding/json may leave a decoded slice of n elements with.
LoadCaps(n) == IF n = 0 THEN {0} ELSE {n, IF n < 4 THEN 4 ELSE n + n}

\* Config.Load: one feature file is decoded and stored in c.Mocks; an
\* unreadable or invalid file ends Load with the error.
LoadFeature(p) ==
  /\ ui[p].pc = "load_feat"
  /\ mu = {p}
  /\ ui[p].todo # <<>>
  /\ LET f == Head(ui[p].todo)
     IN IF f \in DOMAIN disk.feats /\ disk.feats[f].ok
        THEN /\ \E c \in LoadCaps(Len(disk.feats[f].val)) :
                  /\ heap' = Append(heap, NewArray(disk.feats[f].val, c))
                  /\ Mocks' = [g \in DOMAIN Mocks \cup {f} |->
                                 IF g = f THEN [arr |-> Len(heap) + 1, len |-> Len(disk.feats[f].val)]
                                 ELSE Mocks[g]]
             /\ UNCHANGED <<Global, mproxy, mu, disk, req, fe, call, up, srv, methods>>
             /\ ui' = [ui EXCEPT ![p] = Mark([@ EXCEPT !.todo = Tail(@)])]
        ELSE /\ mu' = {}
             /\ ui' = [ui EXCEPT ![p] = Finish(@, "err_load")]
             /\ UNCHANGED <<heap, Mocks, Global, mproxy, disk, req, fe, call, up, srv, methods>>

\* Config.Load returns nil after the last file; Server.Reload returns nil.
LoadReturn(p) ==
  /\ ui[p].pc = "load_feat"
  /\ mu = {p}
  /\ ui[p].todo = <<>>
  /\ mu' = {}
  /\ ui' = [ui EXCEPT ![p] = Finish(@, "ok")]
  /\ UNCHANGED <<heap, Mocks, Global, mproxy, disk, req, fe, call, up, srv, methods>>

\* Manager.UpdateTarget: url.Parse, then the store of
\* m.Config.Global.ProxyConfig.Target.
UpdateTargetSet(p) ==
  /\ ui[p].pc = "ut_set"
  /\ IF UrlParseOK(ui[p].target)
     THEN /\ Global' = [Global EXCEPT !.Target = ui[p].target]
          /\ UNCHANGED <<heap, Mocks, mproxy, mu, disk, req, fe, call, up, srv, methods>>
          /\ ui' = [ui EXCEPT ![p] = Mark([@ EXCEPT !.pc = "ut_proxy"])]
     ELSE /\ ui' = [ui EXCEPT ![p] = Finish(@, "err_cfg")]
          /\ UNCHANGED <<heap, Mocks, Global, mproxy, mu, disk, req, fe, call, up, srv, methods>>

\* Manager.UpdateTarget: m.proxy = createReverseProxy(targetURL, m.Config).
UpdateTargetProxy(p) ==
  /\ ui[p].pc = "ut_proxy"
  /\ mproxy' = createReverseProxy(ui[p].target)
  /\ UNCHANGED <<heap, Mocks, Global, mu, disk, req, fe, call, up, srv, methods>>
  /\ ui' = [ui EXCEPT ![p] = Mark([@ EXCEPT !.pc = "saveg"])]

\* Manager.UpdatePathRewrite: the store of the rule list.
PathRewriteSet(p) ==
  /\ ui[p].pc = "pr_set"
  /\ Global' = [Global EXCEPT !.PathRewrite = RulesArg(ui[p].name)]
  /\ UNCHANGED <<heap, Mocks, mproxy, mu, disk, req, fe, call, up, srv, methods>>
  /\ ui' = [ui EXCEPT ![p] = Mark([@ EXCEPT !.pc = "saveg"])]

\* Manager.SetChangeOrigin: the store of the flag.
ChangeOriginSet(p) ==
  /\ ui[p].pc = "co_set"
  /\ Global' = [Global EXCEPT !.ChangeOrigin = ui[p].flag]
  /\ UNCHANGED <<heap, Mocks, mproxy, mu, disk, req, fe, call, up, srv, methods>>
  /\ ui' = [ui EXCEPT ![p] = Mark([@ EXCEPT !.pc = "saveg"])]

\* Config.SaveGlobalConfig, under the read lock: os.WriteFile succeeds, fails
\* before truncating config.json, or fails after truncating it.
SaveGlobalConfig(p) ==
  /\ ui[p].pc = "saveg"
  /\ mu = {}
  /\ \/ /\ disk' = [disk EXCEPT !.global = File(TRUE, Global)]
        /\ ui' = [ui EXCEPT ![p] = Finish([@ EXCEPT !.saved = TRUE], "ok")]
     \/ /\ UNCHANGED disk
        /\ ui' = [ui EXCEPT ![p] = Finish(@, "err_io")]
     \/ /\ disk' = [disk EXCEPT !.global.ok = FALSE]
        /\ ui' = [ui EXCEPT ![p] = Finish(@, "err_io")]
  /\ UNCHANGED <<heap, Mocks, Global, mproxy, mu, req, fe, call, up, srv, methods>>

\* The user edits config.json in the editor: another target.
EditGlobal ==
  /\ disk.global # File(TRUE, [disk.global.val EXCEPT !.Target = TargetB])
  /\ disk' = [disk EXCEPT !.global = File(TRUE, [disk.global.val EXCEPT !.Target = TargetB])]
  /\ UNCHANGED <<heap, Mocks, Global, mproxy, mu, ui, req, fe, call, up, srv, methods>>

\* The user leaves a feature file that is not valid JSON.
EditFeature ==
  /\ \E f \in DOMAIN disk.feats :
       /\ disk.feats[f].ok
       /\ disk' = [disk EXCEPT !.feats[f].ok = FALSE]
  /\ UNCHANGED <<heap, Mocks, Global, mproxy, mu, ui, req, fe, call, up, srv, methods>>

----------------------------------------------------------------------------
(* Renderer: Manager.processResponseBody. A response body is a JSON object
   whose members are strings; a string and the JSON text are sequences of
   tokens: one-character strings, the delimiters "{{" and "}}", and the
   words a template action is made of *)

\* The characters '"' and '\' of a JSON text.
Q == "\""
BS == "\\"

\* Words inside a template action: fields (with their leading dot) and bare
\* identifiers.
FieldTokens == {".params", ".id", ".now"}
IdentTokens == {"params"}

\* What a body string is drawn from: a letter, a quote, the delimiters and
\* the action words.
BodyAlphabet == {"x", Q, "{{", "}}"} \cup FieldTokens \cup IdentTokens

\* The member names of a body, in the sorted order json.Marshal writes a map.
BodyKeys == <<"id", "msg">>

\* json.Marshal of a string: quotes and backslashes are escaped.
RECURSIVE EscapeFrom(_, _)
EscapeFrom(content, i) ==
  IF i > Len(content) THEN <<>>
  ELSE (IF content[i] \in {Q, BS} THEN <<BS, content[i]>> ELSE <<content[i]>>)
       \o EscapeFrom(content, i + 1)

MarshalString(content) == <<Q>> \o EscapeFrom(content, 1) \o <<Q>>

\* json.Marshal of the members keys[k..] of a body.
RECURSIVE MarshalMembers(_, _, _)
MarshalMembers(body, k, first) ==
  IF k > Len(BodyKeys) THEN <<>>
  ELSE IF BodyKeys[k] \notin DOMAIN body THEN MarshalMembers(body, k + 1, first)
  ELSE (IF first THEN <<>> ELSE <<",">>)
       \o <<Q, BodyKeys[k], Q, ":">> \o MarshalString(body[BodyKeys[k]])
       \o MarshalMembers(body, k + 1, FALSE)

\* bodyJSON, err := json.Marshal(response.Body)
Marshal(body) == <<"{">> \o MarshalMembers(body, 1, TRUE) \o <<"}">>

\* A node of a parsed template: a token of text, or an action holding a
\* chain of fields.
TextNode(tok) == [action |-> FALSE, tok |-> tok, chain |-> <<>>]
ActionNode(chain) == [action |-> TRUE, tok |-> "", chain |-> chain]

\* template.New("body").Parse(text): text up to "{{" is kept as it is; an
\* action runs to the next "}}". Parse fails on an action that is not closed,
\* that is empty, that names a function (a bare identifier: no function is
\* defined), or that holds anything but fields.
RECURSIVE ParseFrom(_, _, _, _, _)
ParseFrom(text, i, inAction, chain, nodes) ==
  IF i > Len(text)
    THEN [err |-> inAction, nodes |-> nodes]
  ELSE IF ~inAction
    THEN IF text[i] = "{{" THEN ParseFrom(text, i + 1, TRUE, <<>>, nodes)
         ELSE ParseFrom(text, i + 1, FALSE, <<>>, Append(nodes, TextNode(text[i])))
  ELSE IF text[i] = "}}"
    THEN IF chain = <<>> THEN [err |-> TRUE, nodes |-> nodes]
         ELSE ParseFrom(text, i + 1, FALSE, <<>>, Append(nodes, ActionNode(chain)))
  ELSE IF text[i] \in FieldTokens
    THEN ParseFrom(text, i + 1, TRUE, Append(chain, text[i]), nodes)
  ELSE [err |-> TRUE, nodes |-> nodes]

Parse(text) == ParseFrom(text, 1, FALSE, <<>>, <<>>)

\* The map key a field token names, spelt as ExtractParams spells a
\* parameter name.
FieldName(tok) ==
  CASE tok = ".params" -> <<"p", "a", "r", "a", "m", "s">>
    [] tok = ".id" -> <<"i", "d">>
    [] tok = ".now" -> <<"n", "o", "w">>

\* What text/template prints for a map key that is absent (missingkey=default).
NoValue == "<no value>"

\* Evaluation of a field chain on data = {"params": params, "now": <time>}:
\* a field of a map is a key lookup, and an absent key prints NoValue; a field
\* of a string, or of an absent value, is an execution error.
EvalChain(chain, params) ==
  IF chain[1] = ".params"
    THEN IF Len(chain) = 1 THEN [err |-> FALSE, out |-> <<"map[]">>]
         ELSE IF Len(chain) = 2
           THEN IF FieldName(chain[2]) \in DOMAIN params
                THEN [err |-> FALSE, out |-> params[FieldName(chain[2])]]
                ELSE [err |-> FALSE, out |-> <<NoValue>>]
         ELSE [err |-> TRUE, out |-> <<>>]
  ELSE IF chain[1] = ".now"
    THEN IF Len(chain) = 1 THEN [err |-> FALSE, out |-> <<"T">>]
         ELSE [err |-> TRUE, out |-> <<>>]
  ELSE IF Len(chain) = 1 THEN [err |-> FALSE, out |-> <<NoValue>>]
       ELSE [err |-> TRUE, out |-> <<>>]

\* tmpl.Execute(&buf, data): text is copied, the value of an action is
\* written as it is (text/template escapes nothing).
RECURSIVE ExecuteFrom(_, _, _, _)
ExecuteFrom(nodes, i, params, buf) ==
  IF i > Len(nodes) THEN [err |-> FALSE, out |-> buf]
  ELSE IF ~nodes[i].action THEN ExecuteFrom(nodes, i + 1, params, Append(buf, nodes[i].tok))
  ELSE LET v == EvalChain(nodes[i].chain, params)
       IN IF v.err THEN [err |-> TRUE, out |-> buf]
          ELSE ExecuteFrom(nodes, i + 1, params, buf \o v.out)

Execute(nodes, params) == ExecuteFrom(nodes, 1, params, <<>>)

NoBody == [k \in {} |-> <<>>]

\* The JSON string that opens at text[i - 1]: its characters up to the closing
\* quote, with \" and \\ unescaped; next is the position after the string.
RECURSIVE StringFrom(_, _, _)
StringFrom(text, i, content) ==
  IF i > Len(text) THEN [err |-> TRUE, content |-> content, next |-> i]
  ELSE IF text[i] = Q THEN [err |-> FALSE, content |-> content, next |-> i + 1]
  ELSE IF text[i] = BS
    THEN IF i + 1 <= Len(text) /\ text[i + 1] \in {Q, BS}
         THEN StringFrom(text, i + 2, Append(content, text[i + 1]))
         ELSE [err |-> TRUE, content |-> content, next |-> i]
  ELSE StringFrom(text, i + 1, Append(content, text[i]))

\* The members of a JSON object from text[i] on: "name":"value" separated by
\* commas and closed by '}' at the end of the text. A member name is one
\* token in every text drawn here.
RECURSIVE MembersFrom(_, _, _)
MembersFrom(text, i, body) ==
  IF i > Len(text) \/ text[i] # Q THEN [err |-> TRUE, body |-> body]
  ELSE LET name == StringFrom(text, i + 1, <<>>)
       IN IF name.err \/ Len(name.content) # 1 \/ name.next + 1 > Len(text)
             \/ text[name.next] # ":" \/ text[name.next + 1] # Q
          THEN [err |-> TRUE, body |-> body]
          ELSE LET val == StringFrom(text, name.next + 2, <<>>)
                   grown == [k \in DOMAIN body \cup {name.content[1]} |->
                               IF k = name.content[1] THEN val.content ELSE body[k]]
               IN IF val.err \/ val.next > Len(text) THEN [err |-> TRUE, body |-> body]
                  ELSE IF text[val.next] = "," THEN MembersFrom(text, val.next + 1, grown)
                  ELSE IF text[val.next] = "}" /\ val.next = Len(text)
                    THEN [err |-> FALSE, body |-> grown]
                  ELSE [err |-> TRUE, body |-> body]

\* json.Unmarshal(buf.Bytes(), &processedBody)
Unmarshal(text) ==
  IF Len(text) < 2 \/ text[1] # "{" THEN [err |-> TRUE, body |-> NoBody]
  ELSE IF text[2] = "}" THEN [err |-> Len(text) # 2, body |-> NoBody]
  ELSE MembersFrom(text, 2, NoBody)

\* Manager.processResponseBody: marshal the body, parse it as a template,
\* execute it on the parameters, unmarshal the output.
processResponseBody(body, params) ==
  LET tmpl == Parse(Marshal(body))
  IN IF tmpl.err THEN [err |-> "parse", body |-> body]
     ELSE LET buf == Execute(tmpl.nodes, params)
          IN IF buf.err THEN [err |-> "execute", body |-> body]
             ELSE LET processedBody == Unmarshal(buf.out)
                  IN IF processedBody.err THEN [err |-> "unmarshal", body |-> body]
                     ELSE [err |-> "", body |-> processedBody.body]

\* A renderer that falls back to some stored variant when the default
\* response is missing.
GenerateResponseFallback(endpoint, params) ==
  IF DOMAIN endpoint.Responses = {}
    THEN [err |-> "notfound", response |-> Response(0, <<>>, <<>>, 0)]
  ELSE LET name == IF endpoint.DefaultResponse \in DOMAIN endpoint.Responses
                   THEN endpoint.DefaultResponse
                   ELSE CHOOSE n \in DOMAIN endpoint.Responses : TRUE
           response == endpoint.Responses[name]
           processed == processResponseBody(response.Body, params)
       IN IF processed.err # "" THEN [err |-> processed.err, response |-> Response(0, <<>>, <<>>, 0)]
          ELSE [err |-> "", response |-> [response EXCEPT !.Body = processed.body]]

\* Manager.GenerateResponse: the default response is looked up, copied, and
\* the body of the copy is replaced by the rendered one.
GenerateResponse(endpoint, params) ==
  IF endpoint.DefaultResponse \notin DOMAIN endpoint.Responses
    THEN [err |-> "notfound", response |-> Response(0, <<>>, <<>>, 0)]
  ELSE LET response == endpoint.Responses[endpoint.DefaultResponse]
           processed == processResponseBody(response.Body, params)
       IN IF processed.err # "" THEN [err |-> processed.err, response |-> Response(0, <<>>, <<>>, 0)]
          ELSE [err |-> "", response |-> [response EXCEPT !.Body = processed.body]]

\* A renderer that works on the stored response instead of a copy.
StoredAfterRenderInPlace(h, ptr, rendered) ==
  IF rendered.err # "" THEN h
  ELSE [h EXCEPT ![ptr.arr][ptr.idx].Responses[h[ptr.arr][ptr.idx].DefaultResponse].Body =
                    rendered.response.Body]

\* The backing arrays after GenerateResponse: processedResponse := response
\* copies the struct, and response.Body = processedBody assigns to the copy.
StoredAfterRender(h, ptr, rendered) == h

\* The body of the dispatcher's 500 answer: gin.H{"error": <message>}.
ErrorBody == [error |-> <<"e">>]

----------------------------------------------------------------------------
(* Response headers. An http.Header is a function from header names to the
   sequence of their values; a header name is a string, and of the names
   below only acao is not in canonical spelling. *)

ACAO == "Access-Control-Allow-Origin"
ACAM == "Access-Control-Allow-Methods"
ACAH == "Access-Control-Allow-Headers"
acao == "access-control-allow-origin"
XUp == "X-Up"
MethodList == "GET, POST, PUT, DELETE, OPTIONS, PATCH"

\* middleware.CORSHeaders: the keys of the map.
CORSHeaders ==
  {ACAO, ACAM, ACAH, "Access-Control-Allow-Credentials", "Access-Control-Expose-Headers"}

\* http.CanonicalHeaderKey on the names above.
CanonicalHeaderKey(k) == IF k = acao THEN ACAO ELSE k

\* http.Header.Set, Add and Del: the key is canonicalized first.
HeaderSet(h, k, v) ==
  [x \in DOMAIN h \cup {CanonicalHeaderKey(k)} |->
     IF x = CanonicalHeaderKey(k) THEN <<v>> ELSE h[x]]

HeaderAdd(h, k, v) ==
  [x \in DOMAIN h \cup {CanonicalHeaderKey(k)} |->
     IF x = CanonicalHeaderKey(k)
     THEN (IF x \in DOMAIN h THEN Append(h[x], v) ELSE <<v>>)
     ELSE h[x]]

HeaderDel(h, k) == [x \in DOMAIN h \ {CanonicalHeaderKey(k)} |-> h[x]]

\* gin's Context.Header: an empty value deletes the header.
ContextHeader(h, k, v) == IF v = "" THEN HeaderDel(h, k) ELSE HeaderSet(h, k, v)

\* CORSMiddleware: the three Set calls on the writer's header.
CORSMiddleware(h) ==
  HeaderSet(HeaderSet(HeaderSet(h, ACAO, "*"), ACAH, "*"), ACAM, MethodList)

\* setResponseHeaders: corsHeaders[key], a lookup of the key as it is spelled.
IsCORSHeader(k) == k \in CORSHeaders

\* setResponseHeaders: the range over response.Headers, in the order given.
RECURSIVE setResponseHeaders(_, _, _, _)
setResponseHeaders(h, headers, order, i) ==
  IF i > Len(order) THEN h
  ELSE setResponseHeaders(IF IsCORSHeader(order[i]) THEN h
                          ELSE ContextHeader(h, order[i], headers[order[i]]),
                          headers, order, i + 1)

\* gin's render of JSON: Content-Type is written when the header has none.
JSONContentType == "application/json; charset=utf-8"
WriteContentType(h) ==
  IF ContentType \in DOMAIN h /\ Len(h[ContentType]) > 0 THEN h
  ELSE HeaderSet(h, ContentType, JSONContentType)

\* Iteration over the keys of a header whose keys are canonical and distinct:
\* the result does not depend on the order, so one order is taken.
RECURSIVE KeySeq(_)
KeySeq(S) == IF S = {} THEN <<>> ELSE LET k == CHOOSE k \in S : TRUE IN <<k>> \o KeySeq(S \ {k})

RECURSIVE SetEach(_, _, _, _)
SetEach(h, k, values, i) ==
  IF i > Len(values) THEN h ELSE SetEach(HeaderSet(h, k, values[i]), k, values, i + 1)

RECURSIVE AddEach(_, _, _, _)
AddEach(h, k, values, i) ==
  IF i > Len(values) THEN h ELSE AddEach(HeaderAdd(h, k, values[i]), k, values, i + 1)

\* headerCopyingTransport.RoundTrip: every value of every header of the
\* upstream response that is not a CORS header is Set on the recorder.
RECURSIVE RoundTripCopy(_, _, _, _)
RoundTripCopy(rec, resp, keys, i) ==
  IF i > Len(keys) THEN rec
  ELSE RoundTripCopy(IF IsCORSHeader(keys[i]) THEN rec
                     ELSE SetEach(rec, keys[i], resp[keys[i]], 1),
                     resp, keys, i + 1)

\* ModifyResponse: resp.Header.Del of every name in middleware.CORSHeaders.
ModifyResponse(resp) == [x \in DOMAIN resp \ CORSHeaders |-> resp[x]]

\* ReverseProxy.ServeHTTP: copyHeader(rw.Header(), res.Header) adds every value.
RECURSIVE copyHeader(_, _, _, _)
copyHeader(dst, src, keys, i) ==
  IF i > Len(keys) THEN dst
  ELSE copyHeader(AddEach(dst, keys[i], src[keys[i]], 1), src, keys, i + 1)

\* responseRecorder.WriteHeader: every value of every recorded header is Set
\* on the underlying writer.
RECURSIVE RecorderFlush(_, _, _, _)
RecorderFlush(w, rec, keys, i) ==
  IF i > Len(keys) THEN w
  ELSE RecorderFlush(SetEach(w, keys[i], rec[keys[i]], 1), rec, keys, i + 1)

----------------------------------------------------------------------------
(* Path rewriting. A pattern is a sequence of one-character strings: "^"
   anchors at the start, "(" alone is a pattern that does not compile, every
   other character matches itself. *)

\* regexp.Compile: the error of an unclosed group.
CompileOK(pattern) == \A i \in 1..Len(pattern) : pattern[i] # "("

HasPrefixAt(s, lit, i) ==
  /\ i + Len(lit) - 1 <= Len(s)
  /\ \A j \in 1..Len(lit) : s[i + j - 1] = lit[j]

\* Regexp.ReplaceAllString for a literal: leftmost matches, not overlapping.
RECURSIVE ReplaceLiteral(_, _, _, _)
ReplaceLiteral(s, lit, repl, i) ==
  IF i > Len(s) THEN <<>>
  ELSE IF HasPrefixAt(s, lit, i) THEN repl \o ReplaceLiteral(s, lit, repl, i + Len(lit))
  ELSE <<s[i]>> \o ReplaceLiteral(s, lit, repl, i + 1)

\* Regexp.ReplaceAllString for the patterns above.
ReplaceAllString(pattern, s, repl) ==
  IF Len(pattern) > 0 /\ pattern[1] = "^"
  THEN LET lit == SubSeq(pattern, 2, Len(pattern))
       IN IF HasPrefixAt(s, lit, 1) THEN repl \o SubSeq(s, Len(lit) + 1, Len(s)) ELSE s
  ELSE IF Len(pattern) = 0 THEN s
  ELSE ReplaceLiteral(s, pattern, repl, 1)

\* Director: the range over cfg.Global.ProxyConfig.PathRewrite, a Go map, in
\* the order the iteration happens to take; a pattern that does not compile
\* is skipped.
RECURSIVE Director(_, _, _, _)
Director(path, rules, order, i) ==
  IF i > Len(order) THEN path
  ELSE Director(IF CompileOK(order[i])
                THEN ReplaceAllString(order[i], path, rules[order[i]])
                ELSE path,
                rules, order, i + 1)

----------------------------------------------------------------------------
(* Forwarding: Manager.Handle around ReverseProxy.ServeHTTP. *)

\* An error handler that answers every failure the same way.
ErrorHandlerNoSentinel(w, kind) ==
  [headers |-> w, status |-> 502, text |-> "Proxy Error", written |-> TRUE, logged |-> {"error"}]

\* createReverseProxy (ErrorHandler): nothing for http.ErrAbortHandler,
\* otherwise logger.ProxyError, WriteHeader(502) and Write("Proxy Error")
\* through the recorder, whose header is still empty.
ErrorHandler(w, kind) ==
  IF kind = "abort"
  THEN [headers |-> w, status |-> 0, text |-> "", written |-> FALSE, logged |-> {}]
  ELSE [headers |-> w, status |-> 502, text |-> "Proxy Error", written |-> TRUE,
        logged |-> {"error"}]

\* ReverseProxy.ServeHTTP on the recorder, for one outcome of the round trip.
ServeHTTP(w, o) ==
  IF o.kind \in {"error", "abort"} THEN ErrorHandler(w, o.kind)
  ELSE LET keys == KeySeq(DOMAIN o.headers)
           rec1 == RoundTripCopy(NoHeader, o.headers, keys, 1)
           resp == ModifyResponse(o.headers)
           rec2 == copyHeader(rec1, resp, KeySeq(DOMAIN resp), 1)
       IN [headers |-> RecorderFlush(w, rec2, KeySeq(DOMAIN rec2), 1),
           status |-> o.status,
           text |-> IF o.kind = "ok" THEN "upstream" ELSE "partial",
           written |-> TRUE, logged |-> {}]

\* &headerCopyingTransport{originalTransport: t, responseRecorder: rec}
Wrap(t, rec) == Append(t, rec)

\* A Handle that restores the transport only after an upstream answer.
TransportAfterAnswered(kind, t) == IF kind = "ok" THEN t ELSE Wrap(t, "req")

\* Manager.Handle: m.proxy.Transport = originalTransport is the statement
\* after ServeHTTP; a panic leaves the wrapper of this request installed.
TransportAfter(kind, t) == IF kind = "copyfail" THEN Wrap(t, "req") ELSE t

\* Manager.Handle (deferred function): the request is logged when a response
\* was written.
HandleLog(r) == IF r.written THEN r.logged \cup {"info"} ELSE r.logged

----------------------------------------------------------------------------
(* Request handling: Server.handleRequest and Server.handleMockResponse *)

NoParams == [n \in {} |-> <<>>]

\* The loop of ExtractParams; pathParts[i] past the end is an index panic.
RECURSIVE ExtractLoop(_, _, _, _)
ExtractLoop(patternParts, pathParts, i, params) ==
  IF i > Len(patternParts) THEN [panic |-> FALSE, params |-> params]
  ELSE IF HasPrefix(patternParts[i])
    THEN IF i > Len(pathParts) THEN [panic |-> TRUE, params |-> NoParams]
         ELSE LET paramName == Tail(patternParts[i])
              IN ExtractLoop(patternParts, pathParts, i + 1,
                             [n \in DOMAIN params \cup {paramName} |->
                                IF n = paramName THEN pathParts[i] ELSE params[n]])
  ELSE ExtractLoop(patternParts, pathParts, i + 1, params)

ExtractParams(pattern, path) == ExtractLoop(Split(pattern), Split(path), 1, NoParams)

\* The methods of the requests that arrive when preflight requests are sent.
ReqMethods == {"GET", "OPTIONS"}

\* A middleware that lets every request through to the dispatcher.
PreflightNever(method) == FALSE

\* CORSMiddleware: c.Request.Method == "OPTIONS" ends the request with
\* AbortWithStatus(204); c.Next() is not called.
Preflight(method) == method = "OPTIONS"

\* A request arrives at the catch-all route, through CORSMiddleware, which
\* answers a preflight request itself.
ReqArrive ==
  /\ req.pc \in {"idle", "done", "aborted"}
  /\ \E method \in methods, path \in ReqPaths :
       req' = IF Preflight(method)
              THEN [IdleReq EXCEPT !.pc = "aborted", !.method = method, !.path = path,
                                   !.headers = CORSMiddleware(NoHeader),
                                   !.status = 204, !.written = TRUE,
                                   !.outcome = "preflight",
                                   !.transport0 = mproxy.Transport]
              ELSE [IdleReq EXCEPT !.pc = "match", !.method = method, !.path = path,
                                   !.headers = CORSMiddleware(NoHeader),
                                   !.transport0 = mproxy.Transport]
  /\ UNCHANGED <<heap, Mocks, Global, mproxy, mu, disk, ui, fe, call, up, srv, methods>>

\* handleRequest: s.MockManager.FindEndpoint(method, path); no lock is taken.
HandleMatch ==
  /\ req.pc = "match"
  /\ \E order \in Perms(DOMAIN Mocks) :
       LET r == FindEndpoint(order, req.method, req.path)
       IN req' = [req EXCEPT !.pc = "decide", !.found = r.found, !.ptr = r.ptr,
                             !.ids = IF r.found = "yes" THEN {Deref(r.ptr).ID} ELSE {}]
  /\ UNCHANGED <<heap, Mocks, Global, mproxy, mu, disk, ui, fe, call, up, srv, methods>>

\* A dispatcher that mocks every matched endpoint.
UseMockAnyMatch(found, active) == found = "yes"

\* handleRequest: err != nil || !endpoint.Active sends the request to the proxy.
UseMock(found, active) == found = "yes" /\ active

\* handleRequest: the test of err and of endpoint.Active through the pointer.
HandleDecide ==
  /\ req.pc = "decide"
  /\ LET active == req.found = "yes" /\ Deref(req.ptr).Active
     IN req' = [req EXCEPT !.active = active,
                           !.pc = IF UseMock(req.found, active) THEN "extract" ELSE "proxy",
                           !.ids = IF req.found = "yes" THEN @ \cup {Deref(req.ptr).ID} ELSE @]
  /\ UNCHANGED <<heap, Mocks, Global, mproxy, mu, disk, ui, fe, call, up, srv, methods>>

\* handleMockResponse: ExtractParams(endpoint.Path, path); a panic is answered
\* 500 by gin.Recovery.
HandleExtract ==
  /\ req.pc = "extract"
  /\ LET e == ExtractParams(Deref(req.ptr).Path, req.path)
     IN req' = [req EXCEPT !.handled = @ \cup {"mock"},
                           !.ids = @ \cup {Deref(req.ptr).ID},
                           !.params = e.params,
                           !.pc = IF e.panic THEN "done" ELSE "render",
                           !.status = IF e.panic THEN 500 ELSE 0,
                           !.written = e.panic,
                           !.outcome = IF e.panic THEN "panic" ELSE ""]
  /\ UNCHANGED <<heap, Mocks, Global, mproxy, mu, disk, ui, fe, call, up, srv, methods>>

\* handleMockResponse: GenerateResponse reads endpoint.DefaultResponse and
\* endpoint.Responses; the copy it returns is sent, or 500 on its error.
HandleRender ==
  /\ req.pc = "render"
  /\ LET e == Deref(req.ptr)
         r == GenerateResponse(e, req.params)
     IN /\ IF r.err = ""
           THEN \E order \in Perms(DOMAIN r.response.Headers) :
                  req' = [req EXCEPT
                            !.pc = "done", !.ids = @ \cup {e.ID},
                            !.status = r.response.Status,
                            !.body = r.response.Body,
                            !.headers = WriteContentType(
                                          setResponseHeaders(@, r.response.Headers, order, 1)),
                            !.written = TRUE, !.logged = {"info"},
                            !.attempts = @ + 1, !.outcome = "mocked"]
           ELSE req' = [req EXCEPT
                          !.pc = "done", !.ids = @ \cup {e.ID},
                          !.status = 500, !.body = ErrorBody,
                          !.headers = WriteContentType(@),
                          !.written = TRUE,
                          !.attempts = @ + 1, !.outcome = "render"]
        /\ heap' = StoredAfterRender(heap, req.ptr, r)
  /\ UNCHANGED <<Mocks, Global, mproxy, mu, disk, ui, fe, call, up, srv, methods>>

\* handleRequest: s.ProxyManager.Handle(c). The Director rewrites the path
\* with the rules of the configuration as they are at this moment, the
\* request goes to the target the proxy object closes over, and the outcome
\* of the round trip is the upstream's choice.
HandleProxy ==
  /\ req.pc = "proxy"
  /\ \E o \in up, order \in Perms(DOMAIN Global.PathRewrite) :
       /\ o.kind = "copyfail" => Len(mproxy.Transport) < MaxWrap
       /\ LET r == ServeHTTP(req.headers, o)
          IN req' = [req EXCEPT
                       !.pc = "done", !.handled = @ \cup {"proxy"},
                       !.upstream = mproxy.targetURL,
                       !.upath = Director(req.path, Global.PathRewrite, order, 1),
                       !.headers = r.headers, !.status = r.status, !.text = r.text,
                       !.written = r.written, !.logged = HandleLog(r),
                       !.attempts = @ + 1, !.outcome = o.kind]
       /\ mproxy' = [mproxy EXCEPT !.Transport = TransportAfter(o.kind, @)]
  /\ UNCHANGED <<heap, Mocks, Global, mu, disk, ui, fe, call, up, srv, methods>>

UIStep ==
  \/ \E p \in DOMAIN ui : UICall(p)
  \/ \E p \in DOMAIN ui : GetEndpoint(p)
  \/ \E p \in DOMAIN ui : ToggleRead(p)
  \/ \E p \in DOMAIN ui : ToggleWrite(p)
  \/ \E p \in DOMAIN ui : SetDefaultSet(p)
  \/ \E p \in DOMAIN ui : CopyArg(p)
  \/ \E p \in DOMAIN ui : UpdateEndpoint(p)
  \/ \E p \in DOMAIN ui : SaveSnap(p)
  \/ \E p \in DOMAIN ui : SaveWrite(p)
  \/ \E p \in DOMAIN ui : AddEndpoint(p)
  \/ \E p \in DOMAIN ui : DeleteShift(p)
  \/ \E p \in DOMAIN ui : DeleteStore(p)
  \/ \E p \in DOMAIN ui : DeleteFeature(p)
  \/ \E p \in DOMAIN ui : AddFeature(p)
  \/ \E p \in DOMAIN ui : LoadBegin(p)
  \/ \E p \in DOMAIN ui : LoadFeature(p)
  \/ \E p \in DOMAIN ui : LoadReturn(p)
  \/ \E p \in DOMAIN ui : UpdateTargetSet(p)
  \/ \E p \in DOMAIN ui : UpdateTargetProxy(p)
  \/ \E p \in DOMAIN ui : PathRewriteSet(p)
  \/ \E p \in DOMAIN ui : ChangeOriginSet(p)
  \/ \E p \in DOMAIN ui : SaveGlobalConfig(p)

ReqStep ==
  \/ ReqArrive
  \/ HandleMatch
  \/ HandleDecide
  \/ HandleExtract
  \/ HandleRender
  \/ HandleProxy

Next ==
  \/ UIStep
  \/ ReqStep
  \/ EditGlobal
  \/ EditFeature

Spec == InitSpec /\ [][Next]_vars

----------------------------------------------------------------------------
(* Claims checked under Spec *)

\* C1: a request the dispatcher has finished was handled by exactly one of
\* the mock path and the proxy, and by the mock path exactly when
\* FindEndpoint returned an endpoint and the Active flag read from it was true.
C1_MockIffActiveMatch ==
  /\ req.handled \subseteq {"mock", "proxy"}
  /\ Cardinality(req.handled) <= 1
  /\ req.pc = "done" =>
       /\ Cardinality(req.handled) = 1
       /\ ("mock" \in req.handled) <=> (req.found = "yes" /\ req.active)
       /\ ("proxy" \in req.handled) <=> (req.found # "yes" \/ ~req.active)

\* C1 witness: a request whose path matched an inactive endpoint was proxied.
C1_Witness ==
  /\ req.pc = "done"
  /\ req.found = "yes"
  /\ ~req.active
  /\ req.handled = {"proxy"}

\* C2: everything one request reads of the Route Table, from matching through
\* rendering, belongs to one endpoint.
C2_OneEndpointPerRequest == Cardinality(req.ids) <= 1

\* C3: while UpdateTarget runs, GetTargetURL() never reports the new URL
\* while the proxy still forwards to another upstream.
C3_TargetSwapAtomic ==
  \A p \in DOMAIN ui :
    (ui[p].op = "UpdateTarget" /\ ui[p].pc \in {"ut_proxy", "saveg"} /\ Global.Target = ui[p].target)
      => mproxy.targetURL = ui[p].target

MutationOps ==
  {"Toggle", "SetDefault", "Create", "DeleteEndpoint", "DeleteFeature",
   "UpdateTarget", "UpdatePathRewrite", "SetChangeOrigin"}

\* C5: a mutation call has changed the Route Table or UpstreamTarget in effect
\* only if its write of the configuration file has completed successfully.
C5_PersistBeforeVisible ==
  \A p \in DOMAIN ui : (ui[p].op \in MutationOps /\ ui[p].wrote) => ui[p].saved

\* The strings of the claim that are not URLs: "://x" stands for
\* "://invalid-url", "n u" for "not a url".
InvalidTargets == {TargetNoScheme, TargetBlank}

\* C17: UpdateTarget called with a string that is not a valid URL returns an
\* error and leaves GetTargetURL() and the upstream the proxy forwards to as
\* they were before the call.
C17_InvalidTargetRejected ==
  \A p \in DOMAIN ui :
    (ui[p].op = "UpdateTarget" /\ ui[p].target \in InvalidTargets /\ ui[p].pc = "done")
      => /\ ui[p].res # "ok"
         /\ Global.Target = ui[p].snap.global.Target
         /\ mproxy.targetURL = ui[p].snap.upstream

\* C7: after Reload has returned successfully the upstream the proxy forwards
\* to is the loaded target URL that GetTargetURL() reports.
C7_ReloadInstallsTarget ==
  \A p \in DOMAIN ui :
    (ui[p].op = "Reload" /\ ui[p].pc = "done" /\ ui[p].res = "ok")
      => mproxy.targetURL = Global.Target

\* C8: after Reload has returned an error the Route Table and the global
\* configuration are those from before the call.
C8_FailedReloadKeepsState ==
  \A p \in DOMAIN ui :
    (ui[p].op = "Reload" /\ ui[p].pc = "done" /\ ui[p].res = "err_load")
      => /\ RouteTable = ui[p].snap.route
         /\ Global = ui[p].snap.global

----------------------------------------------------------------------------------------------------------------------------------------
(* SpecCalls: the UI runs every call of the mutation API inside a command,
   and commands run as goroutines of their own. Two commands are in flight:
   caller 1 makes any calls of the API while caller 2 runs DeleteEndpoint or
   DeleteFeature, the calls that take away what caller 1 works on *)

Callers == {1, 2}

RemovalArgs == {c \in CallArgs : c.op \in {"DeleteEndpoint", "DeleteFeature"}}

InitCalls ==
  /\ heap = <<<<EpA, EpB>>>>
  /\ Mocks = [f \in {"f1"} |-> [arr |-> 1, len |-> 2]]
  /\ Global = InitGlobal
  /\ mproxy = createReverseProxy(TargetA)
  /\ mu = {}
  /\ disk = [global |-> File(TRUE, InitGlobal),
             feats |-> [f \in {"f1"} |-> File(TRUE, <<EpA, EpB>>)]]
  /\ \E c \in RemovalArgs :
       ui = [p \in Callers |->
               IF p = 1 THEN IdleUI
               ELSE [IdleUI EXCEPT !.pc = FirstPc(c.op), !.op = c.op,
                                   !.feature = c.feature, !.id = c.id,
                                   !.calls = MaxCalls, !.snap = LiveView]]
  /\ req = IdleReq
  /\ fe = IdleFe
  /\ call = IdleCall
  /\ up = HealthyUpstream
  /\ srv = NewServer
  /\ methods = {"GET"}

NextCalls == UIStep

SpecCalls == InitCalls /\ [][NextCalls]_vars

\* The sequence es without its first endpoint of the given ID.
DropFirst(es, id) ==
  LET S == {i \in 1..Len(es) : es[i].ID = id}
  IN IF S = {} THEN es
     ELSE [k \in 1..(Len(es) - 1) |-> IF k < Min(S) THEN es[k] ELSE es[k + 1]]

\* The Route Table route after the call c of DeleteEndpoint or DeleteFeature
\* and nothing else.
Without(route, c) ==
  IF c.op = "DeleteFeature"
  THEN [f \in DOMAIN route \ {c.feature} |-> route[f]]
  ELSE [f \in DOMAIN route |-> IF f = c.feature THEN DropFirst(route[f], c.id) ELSE route[f]]

----------------------------------------------------------------------------
(* SpecToggle: NumTogglers goroutines each call ToggleEndpoint once, on
   distinct endpoints of one feature *)

TogIds == <<"a", "b", "c", "d", "e">>

Togglers == 1..NumTogglers

\* The feature holds one endpoint per toggler and one more that nobody toggles.
TogEndpoint(i, active) ==
  Endpoint(TogIds[i], "GET", <<"/", TogIds[i]>>, active, "ok", ResB)

InitToggle ==
  /\ \E act \in [1..(NumTogglers + 1) -> BOOLEAN] :
       /\ heap = <<[i \in 1..(NumTogglers + 1) |-> TogEndpoint(i, act[i])]>>
       /\ disk = [global |-> File(TRUE, InitGlobal),
                  feats |-> [f \in {"f1"} |->
                               File(TRUE, [i \in 1..(NumTogglers + 1) |-> TogEndpoint(i, act[i])])]]
       /\ ui = [p \in Togglers |->
                  [IdleUI EXCEPT !.pc = "get", !.op = "Toggle", !.feature = "f1",
                                 !.id = TogIds[p], !.calls = 1,
                                 !.snap = [route |-> [f \in {"f1"} |->
                                                        [i \in 1..(NumTogglers + 1) |-> TogEndpoint(i, act[i])]],
                                           global |-> InitGlobal,
                                           upstream |-> TargetA]]]
  /\ Mocks = [f \in {"f1"} |-> [arr |-> 1, len |-> NumTogglers + 1]]
  /\ Global = InitGlobal
  /\ mproxy = createReverseProxy(TargetA)
  /\ mu = {}
  /\ req = IdleReq
  /\ fe = IdleFe
  /\ call = IdleCall
  /\ up = HealthyUpstream
  /\ srv = NewServer
  /\ methods = {"GET"}

NextToggle ==
  \/ \E p \in DOMAIN ui : GetEndpoint(p)
  \/ \E p \in DOMAIN ui : ToggleRead(p)
  \/ \E p \in DOMAIN ui : ToggleWrite(p)
  \/ \E p \in DOMAIN ui : CopyArg(p)
  \/ \E p \in DOMAIN ui : UpdateEndpoint(p)
  \/ \E p \in DOMAIN ui : SaveSnap(p)
  \/ \E p \in DOMAIN ui : SaveWrite(p)

SpecToggle == InitToggle /\ [][NextToggle]_vars

AllTogglesDone == \A p \in DOMAIN ui : ui[p].pc = "done"

\* The Route Table the calls started from, with the Active flag of every
\* toggled endpoint inverted and nothing else changed.
ToggledTable(route, ids) ==
  [f \in DOMAIN route |->
     [i \in 1..Len(route[f]) |->
        IF route[f][i].ID \in ids
        THEN [route[f][i] EXCEPT !.Active = ~route[f][i].Active]
        ELSE route[f][i]]]

\* C4: once N concurrent ToggleEndpoint calls on N distinct endpoints have
\* returned, none has failed to find or update its endpoint (a call returns an
\* error only if its own file write failed), every toggled endpoint has its
\* Active flag inverted, and no other endpoint or field differs from the start.
C4_AllTogglesTakeEffect ==
  AllTogglesDone =>
    /\ \A p \in DOMAIN ui : ui[p].res \in {"ok", "err_io"}
    /\ \A p \in DOMAIN ui : ui[p].res = "ok" <=> ui[p].saved
    /\ \A p \in DOMAIN ui :
         RouteTable = ToggledTable(ui[p].snap.route, {ui[q].id : q \in DOMAIN ui})

\* C4 witness: all the concurrent toggles have returned success.
C4_Witness ==
  /\ Cardinality(DOMAIN ui) >= 2
  /\ AllTogglesDone
  /\ \A p \in DOMAIN ui : ui[p].op = "Toggle" /\ ui[p].res = "ok"
  /\ RouteTable # ui[1].snap.route

----------------------------------------------------------------------------
(* SpecParams: ExtractParams called on every pattern and path up to
   MaxPathLen *)

\* The state of the rest of the program while a pure function is called.
NoServer ==
  /\ heap = <<>>
  /\ Mocks = [f \in {} |-> NilPtr]
  /\ Global = InitGlobal
  /\ mproxy = createReverseProxy(TargetA)
  /\ mu = {}
  /\ disk = [global |-> File(TRUE, InitGlobal), feats |-> [f \in {} |-> <<>>]]
  /\ ui = [p \in {} |-> IdleUI]
  /\ req = IdleReq
  /\ fe = IdleFe
  /\ up = HealthyUpstream
  /\ srv = NewServer
  /\ methods = {"GET"}

InitParams ==
  /\ NoServer
  /\ \E pattern \in Strs, path \in Strs :
       call = [pc |-> "start", fn |-> "ExtractParams", pattern |-> pattern, path |-> path,
               out |-> [panic |-> FALSE, params |-> NoParams]]

ParamsCall ==
  /\ call.pc = "start"
  /\ call.fn = "ExtractParams"
  /\ call' = [call EXCEPT !.pc = "done", !.out = ExtractParams(call.pattern, call.path)]
  /\ UNCHANGED <<heap, Mocks, Global, mproxy, mu, disk, ui, req, fe, up, srv, methods>>

NextParams == ParamsCall

SpecParams == InitParams /\ [][NextParams]_vars

\* Positions of the segments of a pattern that begin with ':'.
ParamSegments(pattern) ==
  {i \in 1..Len(Split(pattern)) : HasPrefix(Split(pattern)[i])}

\* C11: for a pattern with n segments that begin with ':' and a path that
\* matches it, ExtractParams returns exactly n entries, each keyed by the
\* segment name without the ':' and holding the path segment at that position.
C11_ExtractParamsComplete ==
  (call.pc = "done" /\ call.fn = "ExtractParams" /\ pathMatches(call.pattern, call.path) = "true")
    => /\ ~call.out.panic
       /\ Cardinality(DOMAIN call.out.params) = Cardinality(ParamSegments(call.pattern))
       /\ \A i \in ParamSegments(call.pattern) :
            /\ Tail(Split(call.pattern)[i]) \in DOMAIN call.out.params
            /\ call.out.params[Tail(Split(call.pattern)[i])] = Split(call.path)[i]

----------------------------------------------------------------------------
(* SpecRender: GenerateResponse called up to MaxRenders times on an endpoint
   whose body member "id" is any string of up to MaxBodyLen tokens; the
   endpoints whose default response is missing have the short bodies only *)

RECURSIVE ContentsOfLen(_)
ContentsOfLen(n) ==
  IF n = 0 THEN {<<>>}
  ELSE {Append(c, t) : c \in ContentsOfLen(n - 1), t \in BodyAlphabet}

Contents == UNION {ContentsOfLen(n) : n \in 0..MaxBodyLen}

\* Parameter maps: none, id = "123", and an id holding a double quote.
ParamMaps ==
  {NoParams,
   [k \in {<<"i", "d">>} |-> <<"1", "2", "3">>],
   [k \in {<<"i", "d">>} |-> <<Q>>]}

RenderEndpoint(content, def) ==
  Endpoint("t", "GET", <<"/", ":", "i", "d">>, TRUE, def,
           [n \in {"ok"} |-> Response(200, JSONHeaders, [id |-> content, msg |-> <<"x">>], 5)])

InitRender ==
  /\ \E content \in Contents, def \in {"ok", "nope"}, params \in ParamMaps :
       /\ def = "nope" => Len(content) <= 1
       /\ heap = <<<<RenderEndpoint(content, def)>>>>
       /\ call = [pc |-> "start", fn |-> "GenerateResponse", ptr |-> [arr |-> 1, idx |-> 1],
                  params |-> params, n |-> 0, stored |-> RenderEndpoint(content, def),
                  out |-> [err |-> "", response |-> Response(0, <<>>, <<>>, 0)]]
  /\ Mocks = [f \in {"f1"} |-> [arr |-> 1, len |-> 1]]
  /\ Global = InitGlobal
  /\ mproxy = createReverseProxy(TargetA)
  /\ mu = {}
  /\ disk = [global |-> File(TRUE, InitGlobal), feats |-> [f \in {} |-> <<>>]]
  /\ ui = [p \in {} |-> IdleUI]
  /\ req = IdleReq
  /\ fe = IdleFe
  /\ up = HealthyUpstream
  /\ srv = NewServer
  /\ methods = {"GET"}

RenderCall ==
  /\ call.pc \in {"start", "called"}
  /\ call.fn = "GenerateResponse"
  /\ call.n < MaxRenders
  /\ LET r == GenerateResponse(Deref(call.ptr), call.params)
     IN /\ call' = [call EXCEPT !.pc = "called", !.n = @ + 1, !.out = r]
        /\ heap' = StoredAfterRender(heap, call.ptr, r)
  /\ UNCHANGED <<Mocks, Global, mproxy, mu, disk, ui, req, fe, up, srv, methods>>

NextRender == RenderCall

SpecRender == InitRender /\ [][NextRender]_vars

\* The body string {{params.id}} and the parameter map {"id": "123"}.
ParamsPlaceholder == <<"{{", "params", ".id", "}}">>
ParamsId123 == [k \in {<<"i", "d">>} |-> <<"1", "2", "3">>]

\* C12: GenerateResponse on a body holding {{params.id}} inside a JSON string,
\* with params = {"id": "123"}, succeeds; the placeholder is replaced by 123,
\* the other members are as stored, and the result is valid JSON.
C12_ParamsPlaceholderRendered ==
  (/\ call.pc = "called"
   /\ call.fn = "GenerateResponse"
   /\ call.stored.DefaultResponse = "ok"
   /\ call.stored.Responses["ok"].Body.id = ParamsPlaceholder
   /\ call.params = ParamsId123)
    => /\ call.out.err = ""
       /\ call.out.response.Body = [id |-> <<"1", "2", "3">>, msg |-> <<"x">>]
       /\ ~Unmarshal(Marshal(call.out.response.Body)).err

\* A body string holds the placeholder of a path parameter that the
\* parameter map lacks.
Unresolved(content, params) ==
  /\ <<"i", "d">> \notin DOMAIN params
  /\ \E i \in 1..(Len(content) - 3) :
       SubSeq(content, i, i + 3) = <<"{{", ".params", ".id", "}}">>

\* A body string holds an opening delimiter that is not followed by one or
\* more fields and a closing delimiter.
Malformed(content) ==
  \E i \in 1..Len(content) :
    /\ content[i] = "{{"
    /\ ~\E j \in (i + 2)..Len(content) :
          /\ content[j] = "}}"
          /\ \A k \in (i + 1)..(j - 1) : content[k] \in FieldTokens

\* C13: a body with an unresolved or malformed placeholder makes
\* GenerateResponse return an error; it never succeeds with the placeholder
\* replaced by empty or filler text.
C13_BadPlaceholderIsError ==
  (/\ call.pc = "called"
   /\ call.fn = "GenerateResponse"
   /\ call.stored.DefaultResponse = "ok"
   /\ \/ Unresolved(call.stored.Responses["ok"].Body.id, call.params)
      \/ Malformed(call.stored.Responses["ok"].Body.id))
    => call.out.err # ""

\* C15: after any number of calls of GenerateResponse the stored endpoint is
\* as it was, and a returned response has the status, headers and delay of
\* the stored variant.
C15_RenderLeavesEndpoint ==
  (call.pc = "called" /\ call.fn = "GenerateResponse")
    => /\ Deref(call.ptr) = call.stored
       /\ call.out.err = "" =>
            /\ call.out.response.Status = call.stored.Responses[call.stored.DefaultResponse].Status
            /\ call.out.response.Headers = call.stored.Responses[call.stored.DefaultResponse].Headers
            /\ call.out.response.Delay = call.stored.Responses[call.stored.DefaultResponse].Delay

\* C15 witness: the second call has returned a response whose body differs
\* from the stored one: a placeholder was rendered.
C15_Witness ==
  /\ call.pc = "called"
  /\ call.fn = "GenerateResponse"
  /\ call.n >= 2
  /\ call.out.err = ""
  /\ call.out.response.Body # call.stored.Responses[call.stored.DefaultResponse].Body
  /\ call.out.response.Delay > 0

----------------------------------------------------------------------------
(* SpecServe: requests served one after another, with no call of the
   mutation API, on a Route Table of one endpoint, for every combination of
   the endpoint's response headers and default response, the rewrite rules
   and the behaviour of the upstream. *)

\* A pattern that regexp.Compile rejects.
RuleBad == <<"(">>

\* The order in which the rules are written in config.json.
RuleOrder == <<RuleStrip, RuleMove, RuleBad>>

DeclaredOrder(rules) ==
  LET idx == {i \in 1..Len(RuleOrder) : RuleOrder[i] \in DOMAIN rules}
      Rank(i) == Cardinality({j \in idx : j <= i})
  IN [k \in 1..Cardinality(idx) |-> RuleOrder[CHOOSE i \in idx : Rank(i) = k]]

ServeRules ==
  {Rw0,
   [p \in {RuleStrip, RuleMove} |-> IF p = RuleStrip THEN <<>> ELSE <<"/", "a">>],
   [p \in {RuleStrip, RuleBad} |-> <<>>]}

\* Headers configured on the mock response "ok".
MockHeaders ==
  {JSONHeaders,
   [k \in {acao} |-> "evil"],
   [k \in {acao} |-> ""],
   [k \in {ACAO, XUp} |-> "mine"]}

ServeResponses(h) ==
  [n \in {"ok", "err"} |->
     IF n = "ok" THEN Response(200, h, [msg |-> <<"o", "k">>], 0)
     ELSE Response(503, [k \in {XUp} |-> "err"], [msg |-> <<"e", "r", "r">>], 0)]

ServeEndpoints ==
  {Endpoint("a", method, <<"/", "a">>, act, def, ServeResponses(h)) :
     method \in ReqMethods, act \in BOOLEAN, def \in {"ok", "nope"}, h \in MockHeaders}

\* A second endpoint of the feature: active, and matching every path of one
\* segment, among them the path of the first endpoint.
ServeSecond == Endpoint("b", "GET", <<"/", ":", "a">>, TRUE, "ok", ResB)

ServeUpstream ==
  {Outcome("ok", 200, [k \in {ContentType} |-> <<"text/plain">>]),
   Outcome("ok", 200, [k \in {ACAO, XUp} |-> IF k = ACAO THEN <<"up">> ELSE <<"1", "2">>]),
   Outcome("error", 0, NoHeader),
   Outcome("abort", 0, NoHeader),
   Outcome("copyfail", 200, [k \in {ContentType} |-> <<"text/plain">>])}

InitServe ==
  /\ \E e \in ServeEndpoints : heap = <<<<e, ServeSecond>>>>
  /\ Mocks = [f \in {"f1"} |-> [arr |-> 1, len |-> 2]]
  /\ \E rules \in ServeRules : Global = [InitGlobal EXCEPT !.PathRewrite = rules]
  /\ mproxy = createReverseProxy(TargetA)
  /\ mu = {}
  /\ disk = [global |-> File(TRUE, Global), feats |-> [f \in {} |-> <<>>]]
  /\ ui = [p \in {} |-> IdleUI]
  /\ req = IdleReq
  /\ fe = IdleFe
  /\ call = [pc |-> "off", view |-> LiveView]
  /\ up = ServeUpstream
  /\ srv = NewServer
  /\ methods = ReqMethods

NextServe == ReqStep

SpecServe == InitServe /\ [][NextServe]_vars

\* C14: when the default response of the endpoint is not among its
\* responses, GenerateResponse returns the error of a missing response and
\* the request is answered 500 with the JSON error body and no header, status
\* or body of a stored variant.
C14_MissingDefaultIs500 ==
  (/\ req.pc = "done"
   /\ req.outcome \in {"mocked", "render"}
   /\ Deref(req.ptr).DefaultResponse \notin DOMAIN Deref(req.ptr).Responses)
    => /\ GenerateResponse(Deref(req.ptr), req.params).err = "notfound"
       /\ req.status = 500
       /\ req.body = ErrorBody
       /\ req.headers = WriteContentType(CORSMiddleware(NoHeader))

C14_Witness ==
  /\ req.pc = "done"
  /\ req.outcome = "render"
  /\ Deref(req.ptr).DefaultResponse = "nope"
  /\ DOMAIN Deref(req.ptr).Responses = {"ok", "err"}
  /\ req.status = 500

\* C16: the path sent upstream is the inbound path rewritten by the rules
\* applied one after another in the order in which they are declared.
C16_RewriteInDeclaredOrder ==
  (req.pc = "done" /\ "proxy" \in req.handled)
    => req.upath = Director(req.path, Global.PathRewrite,
                            DeclaredOrder(Global.PathRewrite), 1)

\* C18: a round trip that ends with the abort sentinel leaves nothing
\* written by the error handling and no error logged; any other failure of
\* the round trip is logged and answered 502 with the body "Proxy Error".
C18_ProxyErrorHandling ==
  (req.pc = "done" /\ "proxy" \in req.handled)
    => /\ req.outcome \in {"abort", "copyfail"}
            => /\ "error" \notin req.logged
               /\ req.status # 502
               /\ req.text # "Proxy Error"
               /\ req.outcome = "abort" => ~req.written
       /\ req.outcome = "error"
            => /\ "error" \in req.logged
               /\ req.status = 502
               /\ req.text = "Proxy Error"

C18_Witness ==
  /\ req.pc = "done"
  /\ req.outcome = "abort"
  /\ ~req.written
  /\ req.logged = {}

\* C19: a request answered 500 for a render failure or 502 for a forward
\* failure was attempted once and leaves the Route Table, the global
\* configuration and the proxy object as they were when it arrived (the
\* Route Table, configuration and target are those of the initial state,
\* which no earlier request has changed; the transport is the one installed
\* when the request arrived).
C19_FailureIsRequestLocal ==
  /\ LiveView = call.view
  /\ (req.pc = "done" /\ req.outcome \in {"render", "error"})
       => /\ req.status \in {500, 502}
          /\ req.attempts = 1
          /\ mproxy.Transport = req.transport0

C19_Witness ==
  /\ req.pc = "done"
  /\ req.outcome = "error"
  /\ req.status = 502
  /\ Len(mproxy.Transport) > 0

\* C20: every response carries the three cross-origin headers of the engine
\* with exactly the engine's one value each.
C20_EngineCORSHeaders ==
  req.pc = "done"
    => /\ {ACAO, ACAH, ACAM} \subseteq DOMAIN req.headers
       /\ req.headers[ACAO] = <<"*">>
       /\ req.headers[ACAH] = <<"*">>
       /\ req.headers[ACAM] = <<MethodList>>

\* C25: when a Handle call has returned, the transport of the reverse proxy
\* is the one it had before the call.
C25_TransportRestored ==
  (req.pc = "done" /\ "proxy" \in req.handled)
    => mproxy.Transport = req.transport0

\* The calls of the claim about saving: they change one feature and save it.
FeatureOps == {"Toggle", "SetDefault", "Create", "DeleteEndpoint"}

\* C27: when concurrent mutation calls on one feature have all completed
\* successfully, the file of the feature holds the endpoint list the feature
\* has in memory.
C27_FileHoldsFinalList ==
  \A f \in DOMAIN Mocks :
    (/\ mu = {}
     /\ \A p \in DOMAIN ui :
          /\ ui[p].pc = "done" /\ ui[p].res = "ok"
          /\ ui[p].op \in FeatureOps /\ ui[p].feature = f)
      => /\ f \in DOMAIN disk.feats
         /\ disk.feats[f] = File(TRUE, Elems(Mocks[f]))

\* C23: right after a successful AddEndpoint the endpoint stored under the
\* new ID is inactive, whatever Active value the caller supplied.
C23_AddedEndpointInactive ==
  \A p \in DOMAIN ui :
    (ui[p].op = "Create" /\ ui[p].pc = "save_snap" /\ ui[p].feature \in DOMAIN Mocks)
      => \A i \in IndexOf(Mocks[ui[p].feature], ui[p].ep.ID) :
           ~heap[Mocks[ui[p].feature].arr][i].Active

\* C21: every endpoint of the Route Table has a default response that is a
\* key of its responses.
C21_DefaultIsAResponse ==
  mu = {} =>
    \A f \in DOMAIN Mocks : \A i \in 1..Mocks[f].len :
      heap[Mocks[f].arr][i].DefaultResponse \in DOMAIN heap[Mocks[f].arr][i].Responses

IdsUnique(es) == \A i, j \in 1..Len(es) : es[i].ID = es[j].ID => i = j

C28_FirstMatchDecides ==
  (req.pc \in {"extract", "render", "proxy", "done"} /\ req.found = "yes")
    => /\ \A j \in 1..(req.ptr.idx - 1) :
            ~EndpointMatches(heap[req.ptr.arr][j], req.method, req.path)
       /\ ~Deref(req.ptr).Active
            => /\ req.pc \in {"proxy", "done"}
               /\ req.pc = "done" => req.handled = {"proxy"}

C28_Witness ==
  /\ req.pc = "done"
  /\ req.found = "yes"
  /\ ~Deref(req.ptr).Active
  /\ req.handled = {"proxy"}
  /\ \E j \in 1..Mocks["f1"].len :
       /\ j # req.ptr.idx
       /\ heap[req.ptr.arr][j].Active
       /\ EndpointMatches(heap[req.ptr.arr][j], req.method, req.path)

\* C29: a request with method OPTIONS is answered by the middleware with
\* status 204 and the cross-origin headers; it is not matched against the
\* Route Table, not rendered and not forwarded.
C29_PreflightAnswered ==
  req.method = "OPTIONS"
    => /\ req.pc = "aborted"
       /\ req.status = 204
       /\ req.headers = CORSMiddleware(NoHeader)
       /\ req.found = "no" /\ req.ptr = NilPtr
       /\ req.handled = {}
       /\ req.attempts = 0
       /\ req.upstream = <<>>

C29_Witness ==
  /\ req.pc = "aborted"
  /\ req.method = "OPTIONS"
  /\ req.status = 204
  /\ \E i \in 1..Mocks["f1"].len :
       /\ heap[Mocks["f1"].arr][i].Active
       /\ EndpointMatches(heap[Mocks["f1"].arr][i], "OPTIONS", req.path)

----------------------------------------------------------------------------
(* SpecSend: Server.sendResponse called once on a response whose body is a
   string of up to MaxStrLen tokens, with and without a Content-Type of its
   own *)

\* What a string body is drawn from: a digit, a letter, a quote and braces.
StrAlphabet == {"1", "x", Q, "{", "}"}

RECURSIVE StringsOfLen(_)
StringsOfLen(n) ==
  IF n = 0 THEN {<<>>}
  ELSE {Append(c, t) : c \in StringsOfLen(n - 1), t \in StrAlphabet}

StringBodies == UNION {StringsOfLen(n) : n \in 0..MaxStrLen}

SendHeaders == {[h \in {} |-> ""], [h \in {ContentType} |-> "text/plain"]}

\* json.Unmarshal([]byte(bodyStr), &jsonBody) returns nil: the text is one
\* JSON value. Over StrAlphabet that is a number (digits), a string (quotes
\* around anything but a quote) or the empty object.
UnmarshalOK(bodyStr) ==
  \/ Len(bodyStr) >= 1 /\ \A i \in 1..Len(bodyStr) : bodyStr[i] = "1"
  \/ /\ Len(bodyStr) >= 2
     /\ bodyStr[1] = Q /\ bodyStr[Len(bodyStr)] = Q
     /\ \A i \in 2..(Len(bodyStr) - 1) : bodyStr[i] # Q
  \/ bodyStr = <<"{", "}">>

\* writeStringJSONBody: valid JSON is written as it is, under the content
\* type application/json; otherwise nothing is written.
writeStringJSONBody(w, bodyStr) ==
  IF UnmarshalOK(bodyStr)
  THEN [ok |-> TRUE, headers |-> HeaderSet(w, ContentType, "application/json"), text |-> bodyStr]
  ELSE [ok |-> FALSE, headers |-> w, text |-> <<>>]

\* sendResponse on a string body: the headers and the status are set; the
\* string is written by writeStringJSONBody, and when that declines,
\* c.JSON(response.Status, response.Body) writes the JSON encoding of the
\* string.
sendResponse(w, response, order) ==
  LET h == setResponseHeaders(w, response.Headers, order, 1)
      r == writeStringJSONBody(h, response.Body)
  IN IF r.ok
     THEN [status |-> response.Status, headers |-> r.headers, text |-> r.text]
     ELSE [status |-> response.Status, headers |-> WriteContentType(h),
           text |-> MarshalString(response.Body)]

InitSend ==
  /\ \E body \in StringBodies, headers \in SendHeaders :
       call = [pc |-> "start", fn |-> "sendResponse",
               response |-> Response(200, headers, body, 0),
               out |-> [status |-> 0, headers |-> NoHeader, text |-> <<>>]]
  /\ heap = <<>>
  /\ Mocks = [f \in {} |-> [arr |-> 0, len |-> 0]]
  /\ Global = InitGlobal
  /\ mproxy = createReverseProxy(TargetA)
  /\ mu = {}
  /\ disk = [global |-> File(TRUE, InitGlobal), feats |-> [f \in {} |-> <<>>]]
  /\ ui = [p \in {} |-> IdleUI]
  /\ req = IdleReq
  /\ fe = IdleFe
  /\ up = HealthyUpstream
  /\ srv = NewServer
  /\ methods = {"GET"}

SendCall ==
  /\ call.pc = "start"
  /\ call.fn = "sendResponse"
  /\ \E order \in Perms(DOMAIN call.response.Headers) :
       call' = [call EXCEPT !.pc = "sent",
                            !.out = sendResponse(CORSMiddleware(NoHeader), call.response, order)]
  /\ UNCHANGED <<heap, Mocks, Global, mproxy, mu, disk, ui, req, fe, up, srv, methods>>

NextSend == SendCall

SpecSend == InitSend /\ [][NextSend]_vars

\* C24: a string body that parses as JSON is sent as that text with
\* Content-Type application/json; a string body that does not parse is
\* written as it is, with no quoting or escaping added.
C24_StringBodyVerbatim ==
  (call.pc = "sent" /\ call.fn = "sendResponse")
    => /\ call.out.text = call.response.Body
       /\ UnmarshalOK(call.response.Body)
            => call.out.headers[ContentType] = <<"application/json">>

----------------------------------------------------------------------------
(* SpecHandle: NumHandlers requests are forwarded at the same time, each by
   its own call of Manager.Handle on the one proxy object. A call is named
   after its recorder *)

HandlerNames == <<"h1", "h2", "h3">>
Handlers == {HandlerNames[i] : i \in 1..NumHandlers}

\* The recorders of a transport chain.
Recorders(t) == {t[i] : i \in 1..Len(t)}

InitHandle ==
  /\ call = [h \in Handlers |-> [pc |-> "save", originalTransport |-> <<>>, copied |-> {}]]
  /\ heap = <<>>
  /\ Mocks = [f \in {} |-> [arr |-> 0, len |-> 0]]
  /\ Global = InitGlobal
  /\ mproxy = createReverseProxy(TargetA)
  /\ mu = {}
  /\ disk = [global |-> File(TRUE, InitGlobal), feats |-> [f \in {} |-> <<>>]]
  /\ ui = [p \in {} |-> IdleUI]
  /\ req = IdleReq
  /\ fe = IdleFe
  /\ up = ServeUpstream
  /\ srv = NewServer
  /\ methods = {"GET"}

\* originalTransport := m.proxy.Transport
HandleSave(h) ==
  /\ call[h].pc = "save"
  /\ call' = [call EXCEPT ![h].pc = "install", ![h].originalTransport = mproxy.Transport]
  /\ UNCHANGED <<heap, Mocks, Global, mproxy, mu, disk, ui, req, fe, up, srv, methods>>

\* m.proxy.Transport = &headerCopyingTransport{originalTransport, responseRecorder}
HandleInstall(h) ==
  /\ call[h].pc = "install"
  /\ mproxy' = [mproxy EXCEPT !.Transport = Wrap(call[h].originalTransport, h)]
  /\ call' = [call EXCEPT ![h].pc = "serve"]
  /\ UNCHANGED <<heap, Mocks, Global, mu, disk, ui, req, fe, up, srv, methods>>

\* m.proxy.ServeHTTP: the round trip of this request goes through the
\* transport the proxy holds now; when the upstream answers, every
\* headerCopyingTransport of the chain sets the headers of the answer on its
\* recorder. A failed body copy panics and Handle returns without restoring.
HandleServe(h) ==
  /\ call[h].pc = "serve"
  /\ \E o \in up :
       call' = [k \in Handlers |->
                  [call[k] EXCEPT
                     !.pc = IF k # h THEN @
                            ELSE IF o.kind = "copyfail" THEN "done" ELSE "restore",
                     !.copied = IF o.kind \in {"ok", "copyfail"} /\ k \in Recorders(mproxy.Transport)
                                THEN @ \cup {h} ELSE @]]
  /\ UNCHANGED <<heap, Mocks, Global, mproxy, mu, disk, ui, req, fe, up, srv, methods>>

\* m.proxy.Transport = originalTransport
HandleRestore(h) ==
  /\ call[h].pc = "restore"
  /\ mproxy' = [mproxy EXCEPT !.Transport = call[h].originalTransport]
  /\ call' = [call EXCEPT ![h].pc = "done"]
  /\ UNCHANGED <<heap, Mocks, Global, mu, disk, ui, req, fe, up, srv, methods>>

NextHandle ==
  \E h \in Handlers :
    \/ HandleSave(h)
    \/ HandleInstall(h)
    \/ HandleServe(h)
    \/ HandleRestore(h)

SpecHandle == InitHandle /\ [][NextHandle]_vars

\* C26: when Handle calls run at the same time, the headers of an upstream
\* answer are copied only into the recorder of the request the answer
\* belongs to.
C26_HeadersToOwnRecorder ==
  \A h \in Handlers : call[h].copied \subseteq {h}

----------------------------------------------------------------------------
(* SpecLife: Start, Stop, UpdatePort and UpdateHost of the Server called one
   after another, up to MaxLifeCalls times. s.httpServer is "nil", "serving"
   (created, ListenAndServe started), "closing" (Shutdown gave up at its
   deadline) or "closed" *)

LifePorts == {3000, 8080}
LifeHosts == {"localhost", "0.0.0.0"}

\* Server.Start
Start(s) ==
  IF s.isRunning THEN [srv |-> s, res |-> "err_running"]
  ELSE [srv |-> [isRunning |-> TRUE, httpServer |-> "serving"], res |-> "ok"]

\* A Stop that clears isRunning before it calls Shutdown.
StopFlagFirst(s, shutdown) ==
  IF ~s.isRunning THEN [srv |-> s, res |-> "err_stopped"]
  ELSE IF shutdown # "ok"
  THEN [srv |-> [isRunning |-> FALSE, httpServer |-> "closing"], res |-> "err_shutdown"]
  ELSE [srv |-> [isRunning |-> FALSE, httpServer |-> "closed"], res |-> "ok"]

\* Server.Stop: s.httpServer.Shutdown(ctx) returns nil or, at the deadline of
\* five seconds, the context's error; isRunning is cleared after a nil only.
Stop(s, shutdown) ==
  IF ~s.isRunning THEN [srv |-> s, res |-> "err_stopped"]
  ELSE IF shutdown # "ok"
  THEN [srv |-> [s EXCEPT !.httpServer = "closing"], res |-> "err_shutdown"]
  ELSE [srv |-> [isRunning |-> FALSE, httpServer |-> "closed"], res |-> "ok"]

\* What a call leaves in the record of the calls made.
Called(fn, res) ==
  [call EXCEPT !.fn = fn, !.res = res, !.n = @ + 1,
               !.last = IF res = "ok" /\ fn \in {"Start", "Stop"} THEN fn ELSE @,
               !.srv0 = srv, !.global0 = Global, !.disk0 = disk]

InitLife ==
  /\ call = [fn |-> "", res |-> "", n |-> 0, last |-> "",
             srv0 |-> NewServer, global0 |-> InitGlobal,
             disk0 |-> [global |-> File(TRUE, InitGlobal), feats |-> [f \in {} |-> <<>>]]]
  /\ heap = <<>>
  /\ Mocks = [f \in {} |-> [arr |-> 0, len |-> 0]]
  /\ Global = InitGlobal
  /\ mproxy = createReverseProxy(TargetA)
  /\ mu = {}
  /\ disk = [global |-> File(TRUE, InitGlobal), feats |-> [f \in {} |-> <<>>]]
  /\ ui = [p \in {} |-> IdleUI]
  /\ req = IdleReq
  /\ fe = IdleFe
  /\ up = HealthyUpstream
  /\ srv = NewServer
  /\ methods = {"GET"}

ServerStart ==
  /\ call.n < MaxLifeCalls
  /\ srv' = Start(srv).srv
  /\ call' = Called("Start", Start(srv).res)
  /\ UNCHANGED <<heap, Mocks, Global, mproxy, mu, disk, ui, req, fe, up, methods>>

ServerStop ==
  /\ call.n < MaxLifeCalls
  /\ \E shutdown \in {"ok", "deadline"} :
       /\ srv' = Stop(srv, shutdown).srv
       /\ call' = Called("Stop", Stop(srv, shutdown).res)
  /\ UNCHANGED <<heap, Mocks, Global, mproxy, mu, disk, ui, req, fe, up, methods>>

\* The assignment to the configuration followed by SaveGlobalConfig, whose
\* os.WriteFile succeeds, fails before truncating config.json, or fails
\* after truncating it.
SetAndSave(fn, global) ==
  /\ Global' = global
  /\ \/ /\ disk' = [disk EXCEPT !.global = File(TRUE, global)]
        /\ call' = Called(fn, "ok")
     \/ /\ UNCHANGED disk
        /\ call' = Called(fn, "err_io")
     \/ /\ disk' = [disk EXCEPT !.global.ok = FALSE]
        /\ call' = Called(fn, "err_io")

\* Server.UpdatePort
ServerUpdatePort ==
  /\ call.n < MaxLifeCalls
  /\ \E port \in LifePorts :
       IF srv.isRunning
       THEN /\ call' = Called("UpdatePort", "err_running")
            /\ UNCHANGED <<Global, disk>>
       ELSE SetAndSave("UpdatePort", [Global EXCEPT !.ServerConfig.Port = port])
  /\ UNCHANGED <<heap, Mocks, mproxy, mu, ui, req, fe, up, srv, methods>>

\* Server.UpdateHost
ServerUpdateHost ==
  /\ call.n < MaxLifeCalls
  /\ \E host \in LifeHosts :
       IF srv.isRunning
       THEN /\ call' = Called("UpdateHost", "err_running")
            /\ UNCHANGED <<Global, disk>>
       ELSE SetAndSave("UpdateHost", [Global EXCEPT !.ServerConfig.Host = host])
  /\ UNCHANGED <<heap, Mocks, mproxy, mu, ui, req, fe, up, srv, methods>>

NextLife ==
  \/ ServerStart
  \/ ServerStop
  \/ ServerUpdatePort
  \/ ServerUpdateHost

SpecLife == InitLife /\ [][NextLife]_vars

\* C30: Start succeeds exactly when the server is not running and leaves it
\* running; Stop succeeds only when it is running and leaves it stopped; a
\* Start while running and a Stop while stopped return an error and change
\* nothing; the server is running exactly when the last successful call of
\* the two was Start; UpdatePort and UpdateHost on a running server return
\* an error and leave the configuration and its file as they were.
C30_StartStopMachine ==
  /\ call.fn = "Start"
       => /\ call.res = "ok" <=> ~call.srv0.isRunning
          /\ call.res = "ok" => srv.isRunning
          /\ call.res # "ok" => srv = call.srv0
  /\ call.fn = "Stop"
       => /\ call.res = "ok" => call.srv0.isRunning /\ ~srv.isRunning
          /\ ~call.srv0.isRunning => call.res # "ok" /\ srv = call.srv0
  /\ srv.isRunning <=> call.last = "Start"
  /\ (call.fn \in {"UpdatePort", "UpdateHost"} /\ call.srv0.isRunning)
       => /\ call.res = "err_running"
          /\ Global = call.global0
          /\ disk = call.disk0
          /\ srv = call.srv0

C30_Witness ==
  /\ call.fn \in {"UpdatePort", "UpdateHost"}
  /\ call.res = "err_running"
  /\ srv.isRunning
  /\ srv.httpServer = "closing"
  /\ call.last = "Start"

====
